---- MODULE Spec2Model ----
(***************************************************************************)
(* Model of the session-wait engine of oc-cli (src/src/lib/wait.ts).       *)
(*                                                                         *)
(* waitForSession is an async function: every action below is one          *)
(* synchronous segment of it (the code between two awaits), or one step of *)
(* its environment (the event stream, the permission reply call, the       *)
(* timeout timer, the external abort signal).                              *)
(***************************************************************************)
EXTENDS Integers, Sequences, FiniteSets, TLC

\* ---------------------------------------------------------------- bounds
\* Largest number of events the stream yields in one wait.
MaxEvents == 2

\* ---------------------------------------------------------------- values
\* The JavaScript value undefined, for an absent string field.
undefined == "undefined"

\* The session waitForSession is called for, and another session.
sessionId == "ses_T"
otherSessionId == "ses_O"

\* An absent object has present = FALSE and undefined fields.
NoInfo == [present |-> FALSE, id |-> undefined, sessionID |-> undefined]
NoPart == [present |-> FALSE, sessionID |-> undefined]
NoData == [present |-> FALSE, message |-> undefined]
NoError == [present |-> FALSE, message |-> undefined, data |-> NoData]
NoProps ==
  [present |-> FALSE, sessionID |-> undefined, info |-> NoInfo,
   part |-> NoPart, id |-> undefined, error |-> NoError,
   patterns |-> undefined, todos |-> undefined]

\* The empty object {} read as a properties object.
EmptyProps == [NoProps EXCEPT !.present = TRUE]

Info(id, sid) == [present |-> TRUE, id |-> id, sessionID |-> sid]
Part(sid) == [present |-> TRUE, sessionID |-> sid]
Data(msg) == [present |-> TRUE, message |-> msg]
Err(msg, data) == [present |-> TRUE, message |-> msg, data |-> data]

Evt(type, props) == [type |-> type, properties |-> props]
NoEvent == Evt(undefined, NoProps)

\* properties objects of the event shapes used below
ForSession(sid) == [EmptyProps EXCEPT !.sessionID = sid]
WithError(sid, err) == [EmptyProps EXCEPT !.sessionID = sid, !.error = err]
WithRequest(sid, id) == [EmptyProps EXCEPT !.sessionID = sid, !.id = id]
\* patterns is "array", or "object" for a value that is not iterable
WithPatterns(sid, id, patterns) ==
  [EmptyProps EXCEPT !.sessionID = sid, !.id = id, !.patterns = patterns]
\* todos is "array", or "nullItem" for an array that holds a null
WithTodos(sid, todos) == [EmptyProps EXCEPT !.sessionID = sid, !.todos = todos]

\* Events the stream of the wait engine may yield (specification Spec).
Events ==
  { Evt("server.connected", EmptyProps),
    Evt("session.idle", ForSession(sessionId)),
    Evt("session.idle", ForSession(otherSessionId)),
    Evt("session.idle", NoProps),
    Evt("session.error", WithError(sessionId, NoError)),
    Evt("session.error", WithError(sessionId, Err("top", Data("boom")))),
    Evt("session.error", WithError(sessionId, Err("top", NoData))),
    Evt("session.error", WithError(sessionId, Err(undefined, Data(undefined)))),
    Evt("session.error", WithError(otherSessionId, Err("top", Data("boom")))),
    Evt("permission.asked", WithRequest(sessionId, "per_1")),
    Evt("permission.asked", WithRequest(sessionId, "")),
    Evt("permission.asked", WithRequest(otherSessionId, "per_2")),
    Evt("permission.asked", WithPatterns(sessionId, "per_3", "array")),
    Evt("permission.asked", WithPatterns(sessionId, "per_4", "object")),
    Evt("todo.updated", WithTodos(sessionId, "nullItem")),
    Evt("message.part.updated", [EmptyProps EXCEPT !.part = Part(sessionId)]),
    Evt("message.updated", [EmptyProps EXCEPT !.info = Info("msg_1", sessionId)]),
    Evt("session.updated", [EmptyProps EXCEPT !.info = Info(sessionId, undefined)]) }

\* Every shape of the four session-id locations (specification SpecFilter).
Ids == {undefined, sessionId, otherSessionId}
InfoShapes == {NoInfo} \cup {Info(i, s) : i \in Ids, s \in Ids}
PartShapes == {NoPart} \cup {Part(s) : s \in Ids}
PropsShapes ==
  {NoProps} \cup
  { [EmptyProps EXCEPT !.sessionID = s, !.info = i, !.part = p, !.id = "per_1"] :
      s \in Ids, i \in InfoShapes, p \in PartShapes }
FilterTypes == {"server.connected", "session.idle", "permission.asked", "message.updated"}
FilterShapes == {Evt(t, p) : t \in FilterTypes, p \in PropsShapes}

\* WaitOptions (wait.ts 28-39).  timeout holds the JavaScript number as text.
TimeoutValues == {"undefined", "0", "30"}
SignalValues == {"none", "live", "aborted"}
WaitOptions ==
  [timeout : TimeoutValues, signal : SignalValues, stream : BOOLEAN,
   pretty : BOOLEAN, autoApprove : BOOLEAN]

\* The values of --timeout after parseInt (run.ts 56): also NaN and a
\* negative number (specification SpecTimer).
TimerValues == TimeoutValues \cup {"NaN", "-5"}

\* The seconds a timeout text stands for.
toNumber(n) == IF n = "30" THEN 30 ELSE IF n = "-5" THEN 0 - 5 ELSE 0

\* Truthiness that takes NaN for a number to wait for.
TruthyNumber_nanArmed(n) == n \notin {"undefined", "0"}

\* JavaScript truthiness of a number and of a string.
TruthyNumber(n) == n \notin {"undefined", "0", "NaN"}
TruthyString(s) == s # undefined /\ s # ""

\* ---------------------------------------------------------------- state
VARIABLES
  options,            \* the WaitOptions of this call
  source,             \* the events the server may send on the stream
  pc,                 \* where waitForSession is suspended
  controllerAborted,  \* controller.signal.aborted
  signalAborted,      \* options.signal.aborted
  timedOut,           \* the flag set by the timer callback
  timeoutId,          \* <<delay in ms>> when setTimeout returned an id, else <<>>
  timerArmed,         \* TRUE while the timer callback is pending
  fmtState,           \* "null" or "state"
  consumed,           \* the events the for-await loop has taken, in order
  stderr,             \* the mirrored events, in order
  replies,            \* the permission replies issued, in order
  trace,              \* the order of the loop's effects: <<op, event index>>
  result,             \* the WaitResult returned
  thrown,             \* the name of the error thrown, or "none"
  abortCause,         \* who aborted the controller first
  streamEnded,        \* TRUE when the stream has ended by itself
  \* the command that calls the wait engine, and the server it talks to
  cmd,                \* "none", "wait" (session wait) or "run"
  cmdPc,              \* where the command is
  exitCode,           \* the process exit code, NoExit while it runs
  printed,            \* what the command wrote to stdout and stderr, in order
  interrupted,        \* TRUE when the SIGINT handler ended the process
  apiCalls,           \* the probe's calls to the server, in order
  probeError,         \* the error the probe rejected with
  initialStatus,      \* the status the probe returned
  srvExists,          \* the server knows the session
  statusMap,          \* the server's status map: session id -> status
  outbox,             \* events sent to the live subscription, not yet read
  \* the formatter
  state,              \* the FormatterState
  writer,             \* what was written to state.writer, in order
  lines,              \* the lines the last formatEvent call returned
  fed,                \* the events given to formatEvent, in order
  \* one call of truncate
  textIn,             \* the text given to truncate
  maxLenIn,           \* the maxLen given to truncate
  truncated,          \* <<>>, or the text truncate returned
  \* the front of the run command, and resolveConfig
  args,               \* the argument and the options of the command line
  input,              \* <<>>, or the text that --file or stdin delivers
  configFile,         \* the names of the profiles of the config file
  prompt,             \* <<>>, or the prompt text after trimming
  config,             \* <<>>, or what resolveConfig returned or threw
  promptParams        \* <<>>, or the parameters built for promptAsync

waitVars ==
  <<options, source, pc, controllerAborted, signalAborted, timedOut, timeoutId,
    timerArmed, fmtState, consumed, stderr, replies, trace, result, thrown,
    abortCause, streamEnded>>

cliVars ==
  <<cmd, cmdPc, exitCode, printed, interrupted, apiCalls, probeError,
    initialStatus, srvExists, statusMap, outbox>>

fmtVars == <<state, writer, lines, fed>>

truncVars == <<textIn, maxLenIn, truncated>>

runVars == <<args, input, configFile, prompt, config, promptParams>>

inVars == <<truncVars, runVars>>

restVars == <<fmtVars, inVars>>

outerVars == <<cliVars, fmtVars, inVars>>

vars == <<waitVars, cliVars, fmtVars, inVars>>

NoResult == [status |-> "none", error |-> undefined, event |-> NoEvent]

\* ---------------------------------------------------------------- helpers
\* evt.properties ?? {}
PropsOf(evt) == IF evt.properties.present THEN evt.properties ELSE EmptyProps

\* eventMatchesSession with the first test on the presence of a session id
\* instead of its equality with the target.
eventMatchesSession_anySession(evt, targetSessionId) ==
  LET p == PropsOf(evt)
      info == p.info
      part == p.part
  IN  IF p.sessionID # undefined THEN TRUE
      ELSE IF info.present /\ info.id = targetSessionId THEN TRUE
      ELSE IF info.present /\ info.sessionID = targetSessionId THEN TRUE
      ELSE IF part.present /\ part.sessionID = targetSessionId THEN TRUE
      ELSE FALSE

\* eventMatchesSession without the test of properties.info.id.
eventMatchesSession_noInfoId(evt, targetSessionId) ==
  LET p == PropsOf(evt)
      info == p.info
      part == p.part
  IN  IF p.sessionID = targetSessionId THEN TRUE
      ELSE IF info.present /\ info.sessionID = targetSessionId THEN TRUE
      ELSE IF part.present /\ part.sessionID = targetSessionId THEN TRUE
      ELSE FALSE

eventMatchesSession(evt, targetSessionId) ==
  LET p == PropsOf(evt)
      info == p.info
      part == p.part
  IN  IF p.sessionID = targetSessionId THEN TRUE
      ELSE IF info.present /\ info.id = targetSessionId THEN TRUE
      ELSE IF info.present /\ info.sessionID = targetSessionId THEN TRUE
      ELSE IF part.present /\ part.sessionID = targetSessionId THEN TRUE
      ELSE FALSE

\* wait.ts 110: the loop's skip test, negated.
PassesFilter(evt, targetSessionId) ==
  ~(evt.type # "server.connected" /\ ~eventMatchesSession(evt, targetSessionId))

\* waitErrorMessage with the fallback chain in the wrong order.
waitErrorMessage_topFirst(evt) ==
  LET props == PropsOf(evt)
      err == props.error
      errData == IF err.present THEN err.data ELSE NoData
      dataMessage == IF errData.present THEN errData.message ELSE undefined
      errMessage == IF err.present THEN err.message ELSE undefined
  IN  IF errMessage # undefined THEN errMessage
      ELSE IF dataMessage # undefined THEN dataMessage
      ELSE "Unknown error"

\* wait.ts 144-147: errData?.message ?? err?.message ?? "Unknown error"
waitErrorMessage(evt) ==
  LET props == PropsOf(evt)
      err == props.error
      errData == IF err.present THEN err.data ELSE NoData
      dataMessage == IF errData.present THEN errData.message ELSE undefined
      errMessage == IF err.present THEN err.message ELSE undefined
  IN  IF dataMessage # undefined THEN dataMessage
      ELSE IF errMessage # undefined THEN errMessage
      ELSE "Unknown error"

\* format-event session.error branch: the message of the "Error:" line.
formatEventErrorMessage(evt) ==
  LET props == PropsOf(evt)
      err == props.error
      errData == IF err.present THEN err.data ELSE NoData
      dataMessage == IF errData.present THEN errData.message ELSE undefined
      errMessage == IF err.present THEN err.message ELSE undefined
  IN  IF dataMessage # undefined THEN dataMessage
      ELSE IF errMessage # undefined THEN errMessage
      ELSE "Unknown error"

\* format-event: the shapes on which formatEvent raises a TypeError.
\*   permission.asked: for (const pattern of patterns) on a non-iterable
\*   todo.updated:     todo.status on a null item
formatEventRaises(evt) ==
  LET props == PropsOf(evt)
  IN  \/ evt.type = "permission.asked" /\ props.patterns = "object"
      \/ evt.type = "todo.updated" /\ props.todos = "nullItem"

\* wait.ts 127-130: does the loop issue the auto-approve reply for evt?
autoApproves(evt) ==
  /\ evt.type = "permission.asked"
  /\ options.autoApprove
  /\ TruthyString(PropsOf(evt).id)

\* ---------------------------------------------------------------- exits
\* The finally block without the clearTimeout call.
clearTimer_kept == timerArmed

\* wait.ts 164-166: finally { if (timeoutId) clearTimeout(timeoutId) }
clearTimer == IF timeoutId # <<>> THEN FALSE ELSE timerArmed

Return(r) ==
  /\ pc' = "returned"
  /\ result' = r
  /\ thrown' = "none"
  /\ timerArmed' = clearTimer

Throw(name) ==
  /\ pc' = "thrown"
  /\ result' = NoResult
  /\ thrown' = name
  /\ timerArmed' = clearTimer

\* wait.ts 154-163: the catch block.
Catch(name) ==
  IF name = "AbortError"
  THEN IF timedOut
       THEN Return([status |-> "timeout", error |-> undefined, event |-> NoEvent])
       ELSE Throw(name)
  ELSE Throw(name)

\* The end of the stream taken for a success.
streamEndedResult_idle ==
  [status |-> "idle", error |-> undefined, event |-> NoEvent]

\* wait.ts 153: the result when the stream is done.
streamEndedResult ==
  [status |-> "error", error |-> "SSE stream ended unexpectedly", event |-> NoEvent]

\* checkTerminal without the session.idle test: only session.error ends the wait.
checkTerminal_idleIgnored(evt) ==
  IF evt.type = "session.error"
  THEN Return([status |-> "error", error |-> waitErrorMessage(evt), event |-> evt])
  ELSE /\ pc' = "awaitNext"
       /\ UNCHANGED <<result, thrown, timerArmed>>

\* wait.ts 138-150: the terminal tests on the event.
checkTerminal(evt) ==
  IF evt.type = "session.idle"
  THEN Return([status |-> "idle", error |-> undefined, event |-> evt])
  ELSE IF evt.type = "session.error"
  THEN Return([status |-> "error", error |-> waitErrorMessage(evt), event |-> evt])
  ELSE /\ pc' = "awaitNext"
       /\ UNCHANGED <<result, thrown, timerArmed>>

\* ---------------------------------------------------------------- server
\* A session status of the server's status map (type, and the retry fields).
StatusIdle == [type |-> "idle", attempt |-> 0, message |-> undefined, next |-> 0]
StatusBusy == [type |-> "busy", attempt |-> 0, message |-> undefined, next |-> 0]
StatusRetry == [type |-> "retry", attempt |-> 2, message |-> "Rate limited", next |-> 1500]

\* The empty map.
EmptyMap == [k \in {} |-> StatusIdle]

\* The status maps of a server: an entry or none for each of the two sessions.
StatusMaps ==
  UNION { [D -> {StatusIdle, StatusBusy, StatusRetry}] :
            D \in SUBSET {sessionId, otherSessionId} }

\* The map with the entry of session sid removed.
WithoutEntry(map, sid) == [k \in DOMAIN map \ {sid} |-> map[k]]

\* An error message of the transport: its text, what the text contains, and
\* what failed.
NoMessage ==
  [cause |-> "none", text |-> undefined, has404 |-> FALSE, hasNotFound |-> FALSE]
NotFoundMessages ==
  { [cause |-> "notFound", text |-> "404: Session not found",
     has404 |-> TRUE, hasNotFound |-> TRUE] }
ConnectionMessages ==
  { [cause |-> "connection", text |-> "ECONNREFUSED",
     has404 |-> FALSE, hasNotFound |-> FALSE],
    [cause |-> "connection", text |-> "connect ECONNREFUSED 127.0.0.1:4040",
     has404 |-> TRUE, hasNotFound |-> FALSE] }

\* Events the server sends for the session.
IdleEvent == Evt("session.idle", ForSession(sessionId))
ErrorEvent == Evt("session.error", WithError(sessionId, Err("top", Data("boom"))))
AskedEvent == Evt("permission.asked", WithRequest(sessionId, "per_1"))
StatusEvent == Evt("session.status", ForSession(sessionId))

\* ---------------------------------------------------------------- formatter
\* The empty Map of the formatter state.
NoEntries == [k \in {} |-> ""]

createFormatterState ==
  [messageRoles |-> NoEntries, messageModels |-> NoEntries,
   messageSessions |-> NoEntries, streamedParts |-> {}, toolsShown |-> {},
   lastPartType |-> "", hasOutput |-> FALSE, assistantHeaderShown |-> {},
   userHeaderShown |-> {}]

\* ---------------------------------------------------------------- inert parts
\* No command runs.
NoCommand ==
  /\ cmd = "none"
  /\ cmdPc = "none"
  /\ exitCode = 0
  /\ printed = <<>>
  /\ interrupted = FALSE
  /\ apiCalls = <<>>
  /\ probeError = NoMessage
  /\ initialStatus = StatusIdle
  /\ srvExists = TRUE
  /\ statusMap = EmptyMap
  /\ outbox = <<>>

\* No event was formatted.
FreshFormatter ==
  /\ state = createFormatterState
  /\ writer = <<>>
  /\ lines = <<>>
  /\ fed = <<>>

\* The command line of no command.
NoArgs ==
  [message |-> <<>>, file |-> undefined, stdin |-> FALSE, profile |-> undefined,
   model |-> undefined, agent |-> undefined, tools |-> undefined,
   allowQuestions |-> FALSE]

\* truncate and the run command are not called.
NoInputs ==
  /\ textIn = <<>>
  /\ maxLenIn = 0
  /\ truncated = <<>>
  /\ args = NoArgs
  /\ input = <<>>
  /\ configFile = {}
  /\ prompt = <<>>
  /\ config = <<>>
  /\ promptParams = <<>>

\* ---------------------------------------------------------------- actions
\* wait.ts 80-98: nothing of the wait has happened.
FreshEngine ==
  /\ controllerAborted = FALSE
  /\ signalAborted = (options.signal = "aborted")
  /\ timedOut = FALSE
  /\ timeoutId = <<>>
  /\ timerArmed = FALSE
  /\ fmtState = "null"
  /\ consumed = <<>>
  /\ stderr = <<>>
  /\ replies = <<>>
  /\ trace = <<>>
  /\ result = NoResult
  /\ thrown = "none"
  /\ abortCause = "none"
  /\ streamEnded = FALSE

InitWith(src) ==
  /\ options \in WaitOptions
  /\ source = src
  /\ pc = "start"
  /\ FreshEngine
  /\ NoCommand
  /\ FreshFormatter
  /\ NoInputs

Init == InitWith(Events)

\* wait.ts 80-103: the code up to the await of client.event.subscribe.
Start ==
  /\ pc = "start"
  /\ pc' = "subscribing"
  /\ timeoutId' = IF TruthyNumber(options.timeout)
                   THEN <<toNumber(options.timeout) * 1000>> ELSE <<>>
  /\ timerArmed' = TruthyNumber(options.timeout)
  /\ fmtState' = IF options.stream THEN "state" ELSE "null"
  /\ UNCHANGED <<outerVars, options, source, controllerAborted, signalAborted, timedOut,
                 consumed, stderr, replies, trace, result, thrown, abortCause,
                 streamEnded>>

\* wait.ts 101: the subscription is open.
SubscribeOk ==
  /\ pc = "subscribing"
  /\ ~controllerAborted
  /\ pc' = "awaitNext"
  /\ UNCHANGED <<outerVars, options, source, controllerAborted, signalAborted, timedOut,
                 timeoutId, timerArmed, fmtState, consumed, stderr, replies,
                 trace, result, thrown, abortCause, streamEnded>>

\* wait.ts 101: subscribe rejects with a transport error.
SubscribeFail ==
  /\ pc = "subscribing"
  /\ ~controllerAborted
  /\ Catch("TransportError")
  /\ UNCHANGED <<outerVars, options, source, controllerAborted, signalAborted, timedOut,
                 timeoutId, fmtState, consumed, stderr, replies, trace,
                 abortCause, streamEnded>>

\* wait.ts 101/105: the aborted controller makes the pending await reject
\* with an AbortError.
AbortUnwind ==
  /\ pc \in {"subscribing", "awaitNext"}
  /\ controllerAborted
  /\ Catch("AbortError")
  /\ UNCHANGED <<outerVars, options, source, controllerAborted, signalAborted, timedOut,
                 timeoutId, fmtState, consumed, stderr, replies, trace,
                 abortCause, streamEnded>>

\* wait.ts 106-150: the body of the loop for the event evt, up to its await
\* or its exit.
loopBody(evt) ==
  LET i == Len(consumed) + 1
      mirror == options.stream /\ fmtState # "null"
      props == PropsOf(evt)
      requestId == props.id
      seen == Append(trace, <<"consume", i>>)
      shown == IF mirror THEN Append(seen, <<"mirror", i>>) ELSE seen
  IN  /\ consumed' = Append(consumed, evt)
      /\ IF ~PassesFilter(evt, sessionId)
         THEN /\ trace' = seen
              /\ UNCHANGED <<pc, stderr, replies, result, thrown, timerArmed>>
         ELSE IF mirror /\ options.pretty /\ formatEventRaises(evt)
         THEN /\ trace' = seen
              /\ Catch("TypeError")
              /\ UNCHANGED <<stderr, replies>>
         ELSE /\ stderr' = IF mirror
                           THEN Append(stderr, [pretty |-> options.pretty, event |-> evt])
                           ELSE stderr
              /\ IF autoApproves(evt)
                 THEN /\ replies' = Append(replies,
                           [requestID |-> requestId, reply |-> "always"])
                      /\ trace' = Append(shown, <<"reply", i>>)
                      /\ pc' = "awaitReply"
                      /\ UNCHANGED <<result, thrown, timerArmed>>
                 ELSE /\ replies' = replies
                      /\ trace' = Append(shown, <<"test", i>>)
                      /\ checkTerminal(evt)

\* wait.ts 105-150: one iteration of the loop on an event of the stream.
NextEvent ==
  /\ pc = "awaitNext"
  /\ ~controllerAborted
  /\ Len(consumed) < MaxEvents
  /\ \E evt \in source : loopBody(evt)
  /\ UNCHANGED <<outerVars, options, source, controllerAborted, signalAborted,
                 timedOut, timeoutId, fmtState, abortCause, streamEnded>>

\* wait.ts 131-150: the reply call resolves; the iteration goes on.
ReplyOk ==
  /\ pc = "awaitReply"
  /\ trace' = Append(trace, <<"test", Len(consumed)>>)
  /\ checkTerminal(consumed[Len(consumed)])
  /\ UNCHANGED <<outerVars, options, source, controllerAborted, signalAborted, timedOut,
                 timeoutId, fmtState, consumed, stderr, replies, abortCause,
                 streamEnded>>

\* wait.ts 131: the reply call rejects with a transport error.
ReplyFail ==
  /\ pc = "awaitReply"
  /\ Catch("TransportError")
  /\ UNCHANGED <<outerVars, options, source, controllerAborted, signalAborted, timedOut,
                 timeoutId, fmtState, consumed, stderr, replies, trace,
                 abortCause, streamEnded>>

\* wait.ts 105: the stream iteration rejects with a transport error.
StreamFail ==
  /\ pc = "awaitNext"
  /\ ~controllerAborted
  /\ Catch("TransportError")
  /\ UNCHANGED <<outerVars, options, source, controllerAborted, signalAborted, timedOut,
                 timeoutId, fmtState, consumed, stderr, replies, trace,
                 abortCause, streamEnded>>

\* wait.ts 152-153: the stream is done.
StreamEnd ==
  /\ pc = "awaitNext"
  /\ ~controllerAborted
  /\ streamEnded' = TRUE
  /\ Return(streamEndedResult)
  /\ UNCHANGED <<outerVars, options, source, controllerAborted, signalAborted, timedOut,
                 timeoutId, fmtState, consumed, stderr, replies, trace,
                 abortCause>>

\* wait.ts 91-94: the timer callback.
TimerFire ==
  /\ timerArmed
  /\ timerArmed' = FALSE
  /\ timedOut' = TRUE
  /\ controllerAborted' = TRUE
  /\ abortCause' = IF controllerAborted THEN abortCause ELSE "timer"
  /\ UNCHANGED <<outerVars, options, source, pc, signalAborted, timeoutId, fmtState,
                 consumed, stderr, replies, trace, result, thrown, streamEnded>>

\* wait.ts 83-85: the external signal aborts; its listener aborts the controller.
ExternalAbort ==
  /\ pc \in {"subscribing", "awaitNext", "awaitReply"}
  /\ options.signal = "live"
  /\ ~signalAborted
  /\ signalAborted' = TRUE
  /\ controllerAborted' = TRUE
  /\ abortCause' = IF controllerAborted THEN abortCause ELSE "signal"
  /\ UNCHANGED <<outerVars, options, source, pc, timedOut, timeoutId, timerArmed, fmtState,
                 consumed, stderr, replies, trace, result, thrown, streamEnded>>

Next ==
  \/ Start
  \/ SubscribeOk
  \/ SubscribeFail
  \/ AbortUnwind
  \/ NextEvent
  \/ ReplyOk
  \/ ReplyFail
  \/ StreamFail
  \/ StreamEnd
  \/ TimerFire
  \/ ExternalAbort

Spec == Init /\ [][Next]_vars

\* The wait engine called with every value --timeout can hand over.
InitTimer ==
  /\ options \in [timeout : TimerValues, signal : {"live"}, stream : {FALSE},
                  pretty : {FALSE}, autoApprove : {TRUE}]
  /\ source = Events
  /\ pc = "start"
  /\ FreshEngine
  /\ NoCommand
  /\ FreshFormatter
  /\ NoInputs

SpecTimer == InitTimer /\ [][Next]_vars

\* The same engine fed with one event shape out of every shape of the four
\* session-id locations.
InitFilter == \E evt \in FilterShapes : InitWith({evt})

SpecFilter == InitFilter /\ [][Next]_vars

\* ================================================================ commands
\* The commands `session wait` (src/src/commands/session.ts) and `run`
\* (src/src/commands/run.ts) around waitForSession, and the server they talk
\* to.  cmdPc is the position of the command: "probeGet" and "probeStatus"
\* are the two awaits of checkSessionStatus, "waiting" the await of
\* waitForSession, "fetching" the await of session.messages, "exited" the
\* end of the process.
cmdVars ==
  <<cmd, cmdPc, exitCode, printed, interrupted, apiCalls, probeError, initialStatus>>
srvVars == <<srvExists, statusMap, outbox>>
waitRest ==
  <<options, source, controllerAborted, signalAborted, timedOut, timeoutId,
    timerArmed, fmtState, consumed, stderr, replies, trace, result, thrown,
    abortCause, streamEnded>>

\* The subscription of the wait is open: the server's events reach it.
subscriptionLive == pc \in {"awaitNext", "awaitReply"}

\* The session is idle on the server.
SessionIsIdle ==
  srvExists /\ (sessionId \in DOMAIN statusMap => statusMap[sessionId].type = "idle")

processExit(code) ==
  /\ cmdPc' = "exited"
  /\ exitCode' = code

consoleLog(text) == printed' = Append(printed, [fd |-> "stdout", text |-> text])

\* output.ts 70-73
printError(message) ==
  /\ printed' = Append(printed, [fd |-> "stderr", text |-> message])
  /\ processExit(1)

\* printErrorWithCode: the error as JSON on stderr, then process.exit(code).
printErrorWithCode(message, code) ==
  /\ printed' = Append(printed, [fd |-> "stderr", text |-> message])
  /\ processExit(code)

\* checkSessionStatus told "busy" whenever the status map has any entry.
checkSessionStatus_anyEntry(map, sid) ==
  IF sid \in DOMAIN map THEN map[sid]
  ELSE IF DOMAIN map # {} THEN StatusBusy
  ELSE StatusIdle

\* checkSessionStatus, after session.get succeeded: the entry of the session
\* in the status map, or idle when it has none.
checkSessionStatus(map, sid) ==
  IF sid \in DOMAIN map THEN map[sid] ELSE StatusIdle

\* One call of the API and the error it failed with (NoMessage: it succeeded).
Call(name, err) == [call |-> name, error |-> err]

\* session.ts 420-427: the catch block of the probe.
probeFailed(msg) ==
  /\ probeError' = msg
  /\ IF msg.has404 \/ msg.hasNotFound
     THEN printError("Session not found")
     ELSE printErrorWithCode("Connection error", 3)

\* session.ts 429-461: from the probe's status to the call of waitForSession.
afterProbe(status) ==
  IF status.type = "idle"
  THEN /\ consoleLog("idle status_check")
       /\ processExit(0)
       /\ pc' = pc
  ELSE /\ cmdPc' = "waiting"
       /\ pc' = "start"
       /\ UNCHANGED <<exitCode, printed>>

\* session.ts 464-481: the result of the wait mapped to the exit code.
waitExit(r) ==
  IF r.status = "idle"
  THEN consoleLog("idle sse") /\ processExit(0)
  ELSE IF r.status = "timeout"
  THEN printErrorWithCode("Timeout", 2)
  ELSE printError("Session error")

\* session.ts 455-461: the catch around waitForSession.
waitCaught(name) ==
  IF name = "AbortError"
  THEN processExit(0) /\ UNCHANGED printed
  ELSE printErrorWithCode("Connection error", 3)

\* run.ts 188-218: the result of the wait in the run command.
runExit(r) ==
  IF r.status = "idle"
  THEN cmdPc' = "fetching" /\ UNCHANGED <<exitCode, printed>>
  ELSE IF r.status = "timeout"
  THEN printError("Timeout")
  ELSE printError("Session error")

\* run.ts 219-225: the catch of the run command.
runCaught(name) ==
  IF name = "AbortError"
  THEN processExit(0) /\ UNCHANGED printed
  ELSE printError("error message")

InitCli ==
  /\ cmd \in {"wait", "run"}
  /\ options \in {o \in WaitOptions :
                    o.signal = "live" /\ (cmd = "wait" => ~o.autoApprove)}
  /\ source = {}
  /\ pc = IF cmd = "wait" THEN "uncalled" ELSE "start"
  /\ FreshEngine
  /\ cmdPc = IF cmd = "wait" THEN "probeGet" ELSE "waiting"
  /\ exitCode = 0
  /\ printed = <<>>
  /\ interrupted = FALSE
  /\ apiCalls = <<>>
  /\ probeError = NoMessage
  /\ initialStatus = StatusIdle
  /\ srvExists \in (IF cmd = "wait" THEN BOOLEAN ELSE {TRUE})
  /\ statusMap \in {m \in StatusMaps : srvExists \/ sessionId \notin DOMAIN m}
  /\ outbox = <<>>
  /\ FreshFormatter
  /\ NoInputs

\* checkSessionStatus: session.get resolves.
ProbeGetOk ==
  /\ cmdPc = "probeGet"
  /\ srvExists
  /\ apiCalls' = Append(apiCalls, Call("get", NoMessage))
  /\ cmdPc' = "probeStatus"
  /\ UNCHANGED <<cmd, exitCode, printed, interrupted, probeError, initialStatus,
                 srvVars, waitVars, restVars>>

\* checkSessionStatus going on to session.status after session.get failed,
\* and rejecting with the error of the later call.
ProbeGetFail_statusAnyway ==
  /\ cmdPc = "probeGet"
  /\ \E msg \in (IF srvExists THEN ConnectionMessages
                 ELSE NotFoundMessages \cup ConnectionMessages) :
       \E later \in ConnectionMessages :
         /\ apiCalls' = apiCalls \o <<Call("get", msg), Call("status", later)>>
         /\ probeFailed(later)
  /\ UNCHANGED <<cmd, interrupted, initialStatus, srvVars, waitVars, restVars>>

\* checkSessionStatus: session.get rejects; the rejection is not caught in
\* checkSessionStatus and reaches the catch block of the command.
ProbeGetFail ==
  /\ cmdPc = "probeGet"
  /\ \E msg \in (IF srvExists THEN ConnectionMessages
                 ELSE NotFoundMessages \cup ConnectionMessages) :
       /\ apiCalls' = Append(apiCalls, Call("get", msg))
       /\ probeFailed(msg)
  /\ UNCHANGED <<cmd, interrupted, initialStatus, srvVars, waitVars, restVars>>

\* checkSessionStatus: session.status resolves; session.ts 429-461 follows.
ProbeStatusOk ==
  /\ cmdPc = "probeStatus"
  /\ apiCalls' = Append(apiCalls, Call("status", NoMessage))
  /\ initialStatus' = checkSessionStatus(statusMap, sessionId)
  /\ afterProbe(initialStatus')
  /\ UNCHANGED <<cmd, interrupted, probeError, srvVars, waitRest, restVars>>

\* checkSessionStatus: session.status rejects.
ProbeStatusFail ==
  /\ cmdPc = "probeStatus"
  /\ \E msg \in ConnectionMessages :
       /\ apiCalls' = Append(apiCalls, Call("status", msg))
       /\ probeFailed(msg)
  /\ UNCHANGED <<cmd, interrupted, initialStatus, srvVars, waitVars, restVars>>

\* session.ts 464-481, run.ts 188-218: waitForSession returned.
WaitReturned ==
  /\ cmdPc = "waiting"
  /\ pc = "returned"
  /\ IF cmd = "wait" THEN waitExit(result) ELSE runExit(result)
  /\ UNCHANGED <<cmd, interrupted, apiCalls, probeError, initialStatus,
                 srvVars, waitVars, restVars>>

\* session.ts 455-461, run.ts 219-225: waitForSession threw.
WaitThrew ==
  /\ cmdPc = "waiting"
  /\ pc = "thrown"
  /\ IF cmd = "wait" THEN waitCaught(thrown) ELSE runCaught(thrown)
  /\ UNCHANGED <<cmd, interrupted, apiCalls, probeError, initialStatus,
                 srvVars, waitVars, restVars>>

\* run.ts 190-212: session.messages resolves, the result is printed and the
\* command ends.
FetchOk ==
  /\ cmdPc = "fetching"
  /\ apiCalls' = Append(apiCalls, Call("messages", NoMessage))
  /\ \E lastAssistantText \in {"null", "text"} :
       IF options.pretty /\ ~options.stream
       THEN printed' = IF lastAssistantText # "null"
                       THEN Append(printed, [fd |-> "stdout", text |-> "text"])
                       ELSE printed
       ELSE consoleLog("completed")
  /\ processExit(0)
  /\ UNCHANGED <<cmd, interrupted, probeError, initialStatus, srvVars, waitVars,
                 restVars>>

\* run.ts 190, 219-225: session.messages rejects.
FetchFail ==
  /\ cmdPc = "fetching"
  /\ \E msg \in ConnectionMessages :
       apiCalls' = Append(apiCalls, Call("messages", msg))
  /\ runCaught("TransportError")
  /\ UNCHANGED <<cmd, interrupted, probeError, initialStatus, srvVars, waitVars,
                 restVars>>

\* session.ts 442-445, run.ts 175-178: the SIGINT handler aborts the
\* controller and ends the process at once.
Sigint ==
  /\ \/ cmdPc = "waiting" /\ pc \in {"subscribing", "awaitNext", "awaitReply"}
     \/ cmdPc = "fetching"
  /\ signalAborted' = TRUE
  /\ controllerAborted' = TRUE
  /\ abortCause' = IF controllerAborted THEN abortCause ELSE "signal"
  /\ interrupted' = TRUE
  /\ processExit(0)
  /\ pc' = "exit"
  /\ timerArmed' = FALSE
  /\ UNCHANGED <<cmd, printed, apiCalls, probeError, initialStatus, srvVars,
                 restVars, options, source, timedOut, timeoutId, fmtState,
                 consumed, stderr, replies, trace, result, thrown, streamEnded>>

\* wait.ts 105-150: one iteration of the loop on the next event the server
\* sent to the subscription.
CliNextEvent ==
  /\ pc = "awaitNext"
  /\ ~controllerAborted
  /\ outbox # <<>>
  /\ loopBody(Head(outbox))
  /\ outbox' = Tail(outbox)
  /\ UNCHANGED <<cmdVars, srvExists, statusMap, restVars, options, source,
                 controllerAborted, signalAborted, timedOut, timeoutId,
                 fmtState, abortCause, streamEnded>>

\* The server sends evt to the subscriptions that are open.
Emit(evt) ==
  IF subscriptionLive
  THEN Len(consumed) + Len(outbox) < MaxEvents /\ outbox' = Append(outbox, evt)
  ELSE outbox' = outbox

\* The server: the session finishes its work; its entry leaves the status
\* map and session.idle is sent.
SessionIdle ==
  /\ cmdPc # "exited"
  /\ srvExists
  /\ ~SessionIsIdle
  /\ statusMap' = WithoutEntry(statusMap, sessionId)
  /\ Emit(IdleEvent)
  /\ UNCHANGED <<cmdVars, srvExists, waitVars, restVars>>

\* The server: the session fails; session.error is sent.
SessionError ==
  /\ cmdPc # "exited"
  /\ srvExists
  /\ ~SessionIsIdle
  /\ subscriptionLive
  /\ Emit(ErrorEvent)
  /\ UNCHANGED <<cmdVars, srvExists, statusMap, waitVars, restVars>>

\* The server: the session waits for a retry; session.status is sent.
SessionRetry ==
  /\ cmdPc # "exited"
  /\ srvExists
  /\ ~SessionIsIdle
  /\ statusMap[sessionId].type = "busy"
  /\ statusMap' = [statusMap EXCEPT ![sessionId] = StatusRetry]
  /\ Emit(StatusEvent)
  /\ UNCHANGED <<cmdVars, srvExists, waitVars, restVars>>

\* The server: the session asks for a permission; permission.asked is sent.
PermissionAsked ==
  /\ cmdPc # "exited"
  /\ srvExists
  /\ ~SessionIsIdle
  /\ subscriptionLive
  /\ Emit(AskedEvent)
  /\ UNCHANGED <<cmdVars, srvExists, statusMap, waitVars, restVars>>

NextCli ==
  \/ ProbeGetOk
  \/ ProbeGetFail
  \/ ProbeStatusOk
  \/ ProbeStatusFail
  \/ Start
  \/ SubscribeOk
  \/ SubscribeFail
  \/ AbortUnwind
  \/ CliNextEvent
  \/ ReplyOk
  \/ ReplyFail
  \/ StreamFail
  \/ StreamEnd
  \/ TimerFire
  \/ WaitReturned
  \/ WaitThrew
  \/ FetchOk
  \/ FetchFail
  \/ Sigint
  \/ SessionIdle
  \/ SessionError
  \/ SessionRetry
  \/ PermissionAsked

SpecCli == InitCli /\ [][NextCli]_vars

\* ================================================================ formatter
\* formatEvent of src/bin/oc-cli.js (the pretty formatter), applied to a
\* sequence of events with one formatter state.

\* ---- bounds
\* Largest number of events given to formatEvent with one state.
MaxFed == 4

\* ---- texts that are transformed are sequences of characters
IsSpace(c) == c \in {" ", "\n", "\t"}

Failed == <<"f", "a", "i", "l", "e", "d">>

\* A text longer than the 60 characters an error line keeps, after a space.
LongText == <<" ">> \o [i \in 1..61 |-> "x"]

\* text.replace(/\s+/g, " "): every run of white space becomes one space.
RECURSIVE squeeze(_, _)
squeeze(text, i) ==
  IF i > Len(text) THEN <<>>
  ELSE IF IsSpace(text[i])
  THEN IF i > 1 /\ IsSpace(text[i - 1])
       THEN squeeze(text, i + 1)
       ELSE <<" ">> \o squeeze(text, i + 1)
  ELSE <<text[i]>> \o squeeze(text, i + 1)

\* .trim() of a text whose runs of white space are single spaces
trim(text) ==
  LET a == IF text # <<>> /\ Head(text) = " " THEN Tail(text) ELSE text
  IN  IF a # <<>> /\ a[Len(a)] = " " THEN SubSeq(a, 1, Len(a) - 1) ELSE a

\* The character U+2026 that truncate appends.
Ellipsis == "..."

\* oc-cli.js 86-90
truncate(text, maxLen) ==
  LET cleaned == trim(squeeze(text, 1))
  IN  IF Len(cleaned) > maxLen
      THEN Append(SubSeq(cleaned, 1, maxLen), Ellipsis)
      ELSE cleaned

\* text.split("\n") of the texts of the events below
splitLines(text) == IF text = "a\nb" THEN <<"a", "b">> ELSE <<text>>

\* ---- events of the formatter: the fields formatEvent reads, flattened
\* (messageID .. model are info.id .. info.providerID/modelID of a
\* message.updated, part.messageID .. of a message.part.updated).  items is
\* the shape of the value the branch iterates (diff, patterns, questions or
\* todos): absent, an empty list, a list of one well-formed item, a list of
\* one null, or an object that is not a list; textType is typeof part.text;
\* message is error.data.message of a session.error.
NoFields ==
  [type |-> undefined, messageID |-> undefined, sessionID |-> undefined,
   role |-> undefined, model |-> undefined, partID |-> undefined,
   delta |-> undefined, field |-> undefined, partType |-> undefined,
   text |-> undefined, status |-> undefined, callID |-> undefined,
   title |-> undefined, tool |-> undefined, error |-> <<>>,
   items |-> "absent", file |-> undefined, message |-> undefined,
   textType |-> "string"]

MessageUpdated(id, role, sid, model) ==
  [NoFields EXCEPT !.type = "message.updated", !.messageID = id, !.role = role,
                   !.sessionID = sid, !.model = model]

PartDelta(mid, pid, sid, delta, field) ==
  [NoFields EXCEPT !.type = "message.part.delta", !.messageID = mid,
                   !.partID = pid, !.sessionID = sid, !.delta = delta,
                   !.field = field]

TextPart(mid, pid, sid, text) ==
  [NoFields EXCEPT !.type = "message.part.updated", !.partType = "text",
                   !.messageID = mid, !.partID = pid, !.sessionID = sid,
                   !.text = text]

ToolPart(mid, sid, callId, status, title, error) ==
  [NoFields EXCEPT !.type = "message.part.updated", !.partType = "tool",
                   !.messageID = mid, !.partID = "prt_tool", !.sessionID = sid,
                   !.callID = callId, !.status = status, !.title = title,
                   !.tool = "bash", !.error = error]

FmtEvents ==
  { MessageUpdated("msg_U", "user", sessionId, undefined),
    MessageUpdated("msg_A", "assistant", sessionId, "p/m"),
    PartDelta("msg_A", "prt_1", sessionId, "Wor", "text"),
    PartDelta("msg_A", "prt_1", sessionId, "", "text"),
    PartDelta("msg_A", "prt_1", sessionId, "Wor", "reasoning"),
    PartDelta("msg_O", "prt_3", otherSessionId, "x", "text"),
    TextPart("msg_A", "prt_1", sessionId, "Working"),
    TextPart("msg_U", "prt_2", sessionId, "fix bug"),
    ToolPart("msg_A", sessionId, "call_1", "pending", undefined, <<>>),
    ToolPart("msg_A", sessionId, "call_1", "running", undefined, <<>>),
    ToolPart("msg_A", sessionId, "call_1", "completed", "Run tests", <<>>),
    ToolPart("msg_A", sessionId, "call_1", "error", undefined, <<>>),
    ToolPart("msg_A", sessionId, "call_1", "error", undefined, LongText),
    [NoFields EXCEPT !.type = "tui.toast.show", !.sessionID = sessionId] }

\* ---- lines and chunks
\* A display line, or a chunk written to the sink: its kind, its text and,
\* for a tool error line, the error text.
Line(kind, text, detail) == [kind |-> kind, text |-> text, detail |-> detail]
Blank == Line("blank", "", <<>>)
Newline == Line("newline", "", <<>>)

\* ---- Map operations
mapGet(map, key, default) == IF key \in DOMAIN map THEN map[key] ELSE default
mapSet(map, key, value) ==
  [k \in DOMAIN map \cup {key} |-> IF k = key THEN value ELSE map[k]]

\* ---- one call of formatEvent in progress: the state, the lines pushed, the
\* chunks written, and the role and session ensureHeader was called for
Call0(st) ==
  [state |-> st, lines |-> <<>>, written |-> <<>>, role |-> "none", session |-> "",
   raised |-> FALSE]

\* A TypeError leaves formatEvent: no list of lines is returned; what was
\* written and assigned before stays.
raise(acc) == [acc EXCEPT !.raised = TRUE, !.lines = <<>>]

\* oc-cli.js 93-97
endStreaming(acc) ==
  IF acc.state.lastPartType \in {"text-stream", "reasoning"}
  THEN [acc EXCEPT !.written = Append(@, Newline)]
  ELSE acc

\* The flag of the other role left as it is.
otherHeaderCleared_kept(shown, sess) == shown

\* oc-cli.js 116, 127: the flag of the other role is cleared for the session.
otherHeaderCleared(shown, sess) == shown \ {sess}

\* oc-cli.js 104-134
ensureHeader(messageId, role, model, acc0) ==
  LET st == acc0.state
      sess == mapGet(st.messageSessions, messageId, "")
      acc == [acc0 EXCEPT !.role = role, !.session = sess]
      blank == IF st.hasOutput THEN <<Blank>> ELSE <<>>
  IN  IF role = "assistant"
      THEN IF sess \in st.assistantHeaderShown THEN acc
           ELSE LET marked ==
                      [acc EXCEPT
                         !.state.assistantHeaderShown = @ \cup {sess},
                         !.state.userHeaderShown = otherHeaderCleared(@, sess)]
                IN  [endStreaming(marked) EXCEPT
                       !.lines = @ \o blank \o <<Line("Assistant", model, <<>>)>>]
      ELSE IF role = "user"
      THEN IF sess \in st.userHeaderShown THEN acc
           ELSE LET marked ==
                      [acc EXCEPT
                         !.state.userHeaderShown = @ \cup {sess},
                         !.state.assistantHeaderShown = otherHeaderCleared(@, sess)]
                IN  [endStreaming(marked) EXCEPT
                       !.lines = @ \o blank \o <<Line("User", "", <<>>)>>]
      ELSE acc

\* oc-cli.js 210-228
messageUpdated(evt, acc) ==
  IF TruthyString(evt.messageID) /\ TruthyString(evt.role)
  THEN [acc EXCEPT
          !.state.messageRoles = mapSet(@, evt.messageID, evt.role),
          !.state.messageSessions =
             IF TruthyString(evt.sessionID)
             THEN mapSet(@, evt.messageID, evt.sessionID) ELSE @,
          !.state.messageModels =
             IF evt.role = "assistant" /\ TruthyString(evt.model)
             THEN mapSet(@, evt.messageID, evt.model) ELSE @]
  ELSE acc

\* oc-cli.js 246, 277: messageSessions.set when both ids are there.
trackSession(evt, acc) ==
  IF TruthyString(evt.messageID) /\ TruthyString(evt.sessionID)
  THEN [acc EXCEPT !.state.messageSessions = mapSet(@, evt.messageID, evt.sessionID)]
  ELSE acc

\* The part is never marked.
markStreamed_never(partId, acc) == acc

\* oc-cli.js 244: if (partId) state.streamedParts.add(partId)
markStreamed(partId, acc) ==
  IF TruthyString(partId)
  THEN [acc EXCEPT !.state.streamedParts = @ \cup {partId}]
  ELSE acc

\* oc-cli.js 236-266
partDelta(evt, acc0) ==
  IF ~TruthyString(evt.delta) THEN acc0
  ELSE LET acc == trackSession(evt, markStreamed(evt.partID, acc0))
           role == mapGet(acc.state.messageRoles, evt.messageID, "assistant")
           model == mapGet(acc.state.messageModels, evt.messageID, "")
       IN  IF evt.field = "text"
           THEN LET headed == ensureHeader(evt.messageID, role, model, acc)
                IN  [headed EXCEPT
                       !.written = @ \o headed.lines \o <<Line("delta", evt.delta, <<>>)>>,
                       !.lines = <<>>,
                       !.state.lastPartType = "text-stream",
                       !.state.hasOutput = TRUE]
           ELSE acc

\* The end of formatEvent with hasOutput left as it is.
finish_unmarked(acc) == acc

\* oc-cli.js 520-524: the end of formatEvent after a break.
finish(acc) ==
  IF acc.lines # <<>> THEN [acc EXCEPT !.state.hasOutput = TRUE] ELSE acc

\* oc-cli.js 282-310
textPart(evt, role, model, acc) ==
  LET text == IF evt.text = undefined THEN "" ELSE evt.text
  IN  IF evt.partID \in acc.state.streamedParts THEN acc
      ELSE IF ~TruthyString(text) THEN acc
      ELSE LET headed == endStreaming(ensureHeader(evt.messageID, role, model, acc))
           IN  IF role = "user" /\ evt.textType # "string"
               THEN raise(headed)
               ELSE IF role = "user"
               THEN finish([headed EXCEPT
                      !.lines = @ \o [i \in 1..Len(splitLines(text)) |->
                                        Line("quote", splitLines(text)[i], <<>>)],
                      !.state.lastPartType = "user-text"])
               ELSE finish([headed EXCEPT
                      !.lines = Append(@, Line("text", text, <<>>)),
                      !.state.lastPartType = "text"])

\* oc-cli.js 324: state.toolsShown.add(callId)
markShown(callId, acc) == [acc EXCEPT !.state.toolsShown = @ \cup {callId}]

\* The error text with no fallback.
toolErrorText_noFallback(errMsg) == truncate(errMsg, 60)

\* oc-cli.js 348: truncate(errMsg || "failed", 60)
toolErrorText(errMsg) == truncate(IF errMsg # <<>> THEN errMsg ELSE Failed, 60)

\* oc-cli.js 312-353
toolPart(evt, role, model, acc) ==
  LET displayName == IF TruthyString(evt.title) THEN evt.title ELSE evt.tool
      headed(a) == endStreaming(ensureHeader(evt.messageID, role, model, a))
  IN  IF evt.status = "pending" THEN acc
      ELSE IF evt.status = "running"
      THEN IF evt.callID \in acc.state.toolsShown THEN acc
           ELSE finish([headed(markShown(evt.callID, acc)) EXCEPT
                  !.lines = Append(@, Line("tool", displayName, <<>>)),
                  !.state.lastPartType = "tool"])
      ELSE IF evt.status = "completed"
      THEN IF evt.callID \notin acc.state.toolsShown
           THEN finish([headed(acc) EXCEPT
                  !.lines = Append(@, Line("tool", displayName, <<>>)),
                  !.state.lastPartType = "tool"])
           ELSE [acc EXCEPT !.state.lastPartType = "tool"]
      ELSE IF evt.status = "error"
      THEN finish([headed(acc) EXCEPT
             !.lines = Append(@, Line("toolError", displayName, toolErrorText(evt.error))),
             !.state.lastPartType = "tool"])
      ELSE acc

\* oc-cli.js 271-374
partUpdated(evt, acc0) ==
  LET acc == trackSession(evt, acc0)
      role == mapGet(acc.state.messageRoles, evt.messageID, "unknown")
      model == mapGet(acc.state.messageModels, evt.messageID, "")
  IN  IF evt.partType = "text" THEN textPart(evt, role, model, acc)
      ELSE IF evt.partType = "tool" THEN toolPart(evt, role, model, acc)
      ELSE acc

\* An event that is suppressed still counted as output.
suppressed_marksOutput(acc) == [acc EXCEPT !.state.hasOutput = TRUE]

\* oc-cli.js 516-517: default: return []
suppressed(acc) == acc

\* lines.push of the branches that print one line.
push(acc, line) == finish([acc EXCEPT !.lines = Append(@, line)])

\* oc-cli.js 147-149
serverConnected(acc) == push(acc, Line("Connected", "", <<>>))

\* oc-cli.js 154-170: session.created and session.deleted
sessionLifecycle(evt, acc0) ==
  LET acc == endStreaming(acc0)
      separator == IF acc.state.hasOutput
                   THEN <<Line("separator", "", <<>>)>> ELSE <<>>
  IN  finish([acc EXCEPT !.lines = separator \o <<Line(evt.type, "", <<>>)>>])

\* oc-cli.js 178-189
sessionStatus(evt, acc) ==
  IF evt.status = "retry"
  THEN push(endStreaming(acc), Line("Retrying", "", <<>>))
  ELSE acc

\* oc-cli.js 198-205
sessionError(evt, acc) ==
  LET message == IF evt.message # undefined THEN evt.message ELSE "Unknown error"
  IN  push(endStreaming(acc), Line("Error", message, <<>>))

\* oc-cli.js 382-384
fileEdited(evt, acc) == push(acc, Line("Edited", evt.file, <<>>))

\* The lines a branch pushes for the items of a list.
itemLines(kind, items) ==
  IF items \in {"list", "nullItem"} THEN <<Line(kind, "item", <<>>)>> ELSE <<>>

\* oc-cli.js 389-408: diffs.slice of a value that is not a list and d.path of
\* a null item raise.
sessionDiff(evt, acc) ==
  IF evt.items \in {"absent", "empty"} THEN acc
  ELSE IF evt.items \in {"object", "nullItem"} THEN raise(acc)
  ELSE finish([acc EXCEPT !.lines = itemLines("diff", evt.items)])

\* oc-cli.js 413-427: for..of over a value that is not iterable raises.
permissionAsked(evt, acc0) ==
  LET acc == endStreaming(acc0)
  IN  IF evt.items = "object" THEN raise(acc)
      ELSE finish([acc EXCEPT
             !.lines = <<Blank, Line("Permission required", "", <<>>)>>
                       \o itemLines("pattern", evt.items)
                       \o <<Line("hint", "session permit", <<>>), Blank>>])

\* oc-cli.js 429-434
permissionUpdated(evt, acc) ==
  push(endStreaming(acc), Line("Permission", "", <<>>))

\* oc-cli.js 436-442
permissionReplied(evt, acc) == push(acc, Line("Permitted", "", <<>>))

\* oc-cli.js 447-479: for..of over a value that is not iterable and
\* q.question of a null item raise.
questionAsked(evt, acc0) ==
  LET acc == endStreaming(acc0)
  IN  IF evt.items \in {"object", "nullItem"} THEN raise(acc)
      ELSE finish([acc EXCEPT
             !.lines = <<Blank>> \o itemLines("Question", evt.items)
                       \o <<Line("hint", "session answer", <<>>),
                            Line("hint", "session reject", <<>>), Blank>>])

\* oc-cli.js 481-485
questionReplied(evt, acc) == push(acc, Line("Answered", "", <<>>))

\* oc-cli.js 487-490
questionRejected(evt, acc) == push(acc, Line("Question rejected", "", <<>>))

\* oc-cli.js 495-511: for..of over a value that is not iterable and
\* todo.status of a null item raise.
todoUpdated(evt, acc) ==
  IF evt.items \in {"absent", "empty"} THEN acc
  ELSE IF evt.items \in {"object", "nullItem"} THEN raise(acc)
  ELSE finish([acc EXCEPT !.lines = itemLines("todo", evt.items)])

\* oc-cli.js 138-525: the state after the call, the lines returned, the chunks
\* written.
formatEvent(evt, st) ==
  IF evt.type = "message.updated" THEN messageUpdated(evt, Call0(st))
  ELSE IF evt.type = "message.part.delta" THEN partDelta(evt, Call0(st))
  ELSE IF evt.type = "message.part.updated" THEN partUpdated(evt, Call0(st))
  ELSE IF evt.type = "server.connected" THEN serverConnected(Call0(st))
  ELSE IF evt.type \in {"session.created", "session.deleted"}
  THEN sessionLifecycle(evt, Call0(st))
  ELSE IF evt.type = "session.status" THEN sessionStatus(evt, Call0(st))
  ELSE IF evt.type = "session.error" THEN sessionError(evt, Call0(st))
  ELSE IF evt.type = "file.edited" THEN fileEdited(evt, Call0(st))
  ELSE IF evt.type = "session.diff" THEN sessionDiff(evt, Call0(st))
  ELSE IF evt.type = "permission.asked" THEN permissionAsked(evt, Call0(st))
  ELSE IF evt.type = "permission.updated" THEN permissionUpdated(evt, Call0(st))
  ELSE IF evt.type = "permission.replied" THEN permissionReplied(evt, Call0(st))
  ELSE IF evt.type = "question.asked" THEN questionAsked(evt, Call0(st))
  ELSE IF evt.type = "question.replied" THEN questionReplied(evt, Call0(st))
  ELSE IF evt.type = "question.rejected" THEN questionRejected(evt, Call0(st))
  ELSE IF evt.type = "todo.updated" THEN todoUpdated(evt, Call0(st))
  ELSE suppressed(Call0(st))

InitFmt ==
  /\ options = [timeout |-> "undefined", signal |-> "none", stream |-> TRUE,
                pretty |-> TRUE, autoApprove |-> FALSE]
  /\ source = {}
  /\ pc = "uncalled"
  /\ FreshEngine
  /\ NoCommand
  /\ FreshFormatter
  /\ NoInputs

\* One event is given to formatEvent; the lines it returns and the chunks it
\* writes are kept with the event.
Feed ==
  /\ Len(fed) < MaxFed
  /\ \E evt \in FmtEvents :
       LET r == formatEvent(evt, state)
       IN  /\ state' = r.state
           /\ lines' = r.lines
           /\ writer' = writer \o r.written
           /\ fed' = Append(fed, [event |-> evt, lines |-> r.lines,
                                  written |-> r.written, role |-> r.role,
                                  session |-> r.session, raised |-> r.raised])
  /\ UNCHANGED <<waitVars, cliVars, inVars>>

NextFmt == Feed

SpecFmt == InitFmt /\ [][NextFmt]_vars

\* ---- the other branches of formatEvent and the shapes of their properties
\* Largest number of events given to formatEvent with one state.
MaxShapes == 2

Plain(type) == [NoFields EXCEPT !.type = type, !.sessionID = sessionId]

WithItems(type, items) == [Plain(type) EXCEPT !.items = items]

ShapeEvents ==
  { Plain("server.connected"),
    Plain("session.created"),
    Plain("session.deleted"),
    Plain("session.updated"),
    Plain("session.idle"),
    [Plain("session.status") EXCEPT !.status = "retry"],
    [Plain("session.status") EXCEPT !.status = "busy"],
    [Plain("session.error") EXCEPT !.message = "boom"],
    Plain("session.error"),
    [NoFields EXCEPT !.type = "message.updated"],
    MessageUpdated("msg_U", "user", sessionId, undefined),
    [NoFields EXCEPT !.type = "message.part.updated"],
    [TextPart("msg_U", "prt_2", sessionId, "5") EXCEPT !.textType = "number"],
    PartDelta("msg_A", "prt_1", sessionId, "Wor", "text"),
    [Plain("file.edited") EXCEPT !.file = "a.ts"],
    WithItems("session.diff", "list"),
    WithItems("session.diff", "object"),
    WithItems("session.diff", "nullItem"),
    WithItems("permission.asked", "list"),
    WithItems("permission.asked", "object"),
    Plain("permission.updated"),
    Plain("permission.replied"),
    WithItems("question.asked", "list"),
    WithItems("question.asked", "nullItem"),
    Plain("question.replied"),
    Plain("question.rejected"),
    WithItems("todo.updated", "list"),
    WithItems("todo.updated", "nullItem"),
    WithItems("todo.updated", "object"),
    WithItems("todo.updated", "empty") }

\* One event of ShapeEvents is given to formatEvent.
FeedShape ==
  /\ Len(fed) < MaxShapes
  /\ \E evt \in ShapeEvents :
       LET r == formatEvent(evt, state)
       IN  /\ state' = r.state
           /\ lines' = r.lines
           /\ writer' = writer \o r.written
           /\ fed' = Append(fed, [event |-> evt, lines |-> r.lines,
                                  written |-> r.written, role |-> r.role,
                                  session |-> r.session, raised |-> r.raised])
  /\ UNCHANGED <<waitVars, cliVars, inVars>>

NextShapes == FeedShape

SpecShapes == InitFmt /\ [][NextShapes]_vars

\* ================================================================ truncate
\* truncate of src/bin/oc-cli.js applied to one text.

\* Longest text of the characters below given to truncate.
MaxTextLen == 4

\* x repeated n times
Xs(n) == [i \in 1..n |-> "x"]

\* The texts given to truncate: every text of up to MaxTextLen characters
\* out of a letter, a space and a newline; texts of 59 to 62 letters; a text
\* of 69 characters, 61 letters with runs of white space.
Texts ==
  UNION {[1..n -> {"a", " ", "\n"}] : n \in 0..MaxTextLen}
    \cup {Xs(59), Xs(60), Xs(61), Xs(62)}
    \cup {<<" ", "\n">> \o Xs(30) \o [i \in 1..4 |-> " "] \o Xs(31) \o <<"\t", " ">>}

\* The budgets: two small ones, and the 60 of the callers (oc-cli.js 347, 365).
Budgets == {2, 3, 60}

InitTruncate ==
  /\ options = [timeout |-> "undefined", signal |-> "none", stream |-> TRUE,
                pretty |-> TRUE, autoApprove |-> FALSE]
  /\ source = {}
  /\ pc = "uncalled"
  /\ FreshEngine
  /\ NoCommand
  /\ FreshFormatter
  /\ textIn \in Texts
  /\ maxLenIn \in Budgets
  /\ truncated = <<>>
  /\ args = NoArgs
  /\ input = <<>>
  /\ configFile = {}
  /\ prompt = <<>>
  /\ config = <<>>
  /\ promptParams = <<>>

\* truncate(text, maxLen) is called.
Truncate ==
  /\ truncated = <<>>
  /\ truncated' = <<truncate(textIn, maxLenIn)>>
  /\ UNCHANGED <<waitVars, cliVars, fmtVars, textIn, maxLenIn, runVars>>

NextTruncate == Truncate

SpecTruncate == InitTruncate /\ [][NextTruncate]_vars

\* ================================================================ config
\* resolveConfig of src/lib/config.ts, called through getConfig.

\* The names a config file may give to its profiles.
ProfileNames == {"alpha", "beta", "gamma"}

\* Members of Object.prototype: profiles[name] finds them in every object
\* that JSON.parse returns.
InheritedNames == {"constructor", "toString"}

\* The values of the -p option.
ProfileOptions ==
  {undefined, "alpha", "beta", "gamma", "ghost", "constructor", "toString"}

\* The defaultAgent of a profile (undefined for a value that is no profile).
defaultAgentOf(name) == IF name = "alpha" THEN "coder" ELSE undefined

\* resolveConfig returns the Config of the profile name.
Resolved(name) ==
  [ok |-> TRUE, error |-> undefined, activeProfile |-> name,
   defaultAgent |-> defaultAgentOf(name)]

\* resolveConfig throws an Error with this message.
ThrownError(message) ==
  [ok |-> FALSE, error |-> message, activeProfile |-> undefined,
   defaultAgent |-> undefined]

\* config.ts (text-extract.ts 391-427): the selection of the profile.
resolveConfig(profiles, profile) ==
  IF TruthyString(profile)
  THEN IF profile \in profiles \/ profile \in InheritedNames
       THEN Resolved(profile)
       ELSE ThrownError("Profile not found")
  ELSE IF Cardinality(profiles) = 1
  THEN Resolved(CHOOSE name \in profiles : TRUE)
  ELSE IF Cardinality(profiles) = 0
  THEN ThrownError("No profiles configured")
  ELSE ThrownError("Multiple profiles configured")

\* run.ts 41-48: the -p option is passed on when it is truthy.
getConfig(profiles, a) ==
  resolveConfig(profiles, IF TruthyString(a.profile) THEN a.profile ELSE undefined)

InitConfig ==
  /\ options = [timeout |-> "undefined", signal |-> "none", stream |-> TRUE,
                pretty |-> TRUE, autoApprove |-> FALSE]
  /\ source = {}
  /\ pc = "uncalled"
  /\ FreshEngine
  /\ NoCommand
  /\ FreshFormatter
  /\ textIn = <<>>
  /\ maxLenIn = 0
  /\ truncated = <<>>
  /\ \E profile \in ProfileOptions : args = [NoArgs EXCEPT !.profile = profile]
  /\ input = <<>>
  /\ configFile \in SUBSET ProfileNames
  /\ prompt = <<>>
  /\ config = <<>>
  /\ promptParams = <<>>

\* getConfig is called.
ResolveConfig ==
  /\ config = <<>>
  /\ config' = <<getConfig(configFile, args)>>
  /\ UNCHANGED <<waitVars, cliVars, fmtVars, truncVars, args, input, configFile,
                 prompt, promptParams>>

NextConfig == ResolveConfig

SpecConfig == InitConfig /\ [][NextConfig]_vars

\* ================================================================ run front
\* The run command of src/commands/run.ts from its start to the call of
\* waitForSession.

\* text.trim(): the white space at both ends is removed.
RECURSIVE trimStart(_)
trimStart(t) == IF t # <<>> /\ IsSpace(Head(t)) THEN trimStart(Tail(t)) ELSE t

RECURSIVE trimEnd(_)
trimEnd(t) ==
  IF t # <<>> /\ IsSpace(t[Len(t)]) THEN trimEnd(SubSeq(t, 1, Len(t) - 1)) ELSE t

stringTrim(t) == trimEnd(trimStart(t))

\* The texts of a prompt source: empty, white space only, a text in white space.
PromptTexts == {<<>>, <<" ", "\n">>, <<" ", "h", "i", "\n">>}

\* The values of --tools: not JSON, and two JSON maps.
ToolsOptions ==
  {undefined, "oops", "{\"read\":true}", "{\"read\":true,\"question\":true}"}

\* JSON.parse of a --tools value that is JSON.
parseTools(json) ==
  IF json = "{\"read\":true}" THEN mapSet(EmptyMap, "read", TRUE)
  ELSE mapSet(mapSet(EmptyMap, "read", TRUE), "question", TRUE)

\* The command lines of the run command.
RunArgs ==
  [message : {<<>>} \cup {<<t>> : t \in PromptTexts},
   file : {undefined, "p.txt"},
   stdin : BOOLEAN,
   profile : {undefined, "alpha", "ghost"},
   model : {undefined, "badformat", "p/m"},
   agent : {undefined, "build"},
   tools : ToolsOptions,
   allowQuestions : BOOLEAN]

\* The count of stdin is left out.
sources_noStdin(a) ==
  (IF a.message # <<>> THEN 1 ELSE 0) + (IF TruthyString(a.file) THEN 1 ELSE 0)

\* run.ts 68-72: the number of prompt sources given.
sources(a) ==
  (IF a.message # <<>> THEN 1 ELSE 0) + (IF TruthyString(a.file) THEN 1 ELSE 0)
    + (IF a.stdin THEN 1 ELSE 0)

\* What the actions of the run front leave as it is.
runFrame ==
  <<cmd, interrupted, probeError, initialStatus, srvVars, waitRest, fmtVars,
    truncVars, args, input, configFile>>

InitRun ==
  /\ options = [timeout |-> "undefined", signal |-> "live", stream |-> FALSE,
                pretty |-> FALSE, autoApprove |-> FALSE]
  /\ source = {}
  /\ pc = "uncalled"
  /\ FreshEngine
  /\ cmd \in {"run", "prompt"}
  /\ cmdPc = "parse"
  /\ exitCode = 0
  /\ printed = <<>>
  /\ interrupted = FALSE
  /\ apiCalls = <<>>
  /\ probeError = NoMessage
  /\ initialStatus = StatusIdle
  /\ srvExists = TRUE
  /\ statusMap = EmptyMap
  /\ outbox = <<>>
  /\ FreshFormatter
  /\ textIn = <<>>
  /\ maxLenIn = 0
  /\ truncated = <<>>
  /\ args \in RunArgs
  /\ input \in {<<>>} \cup {<<t>> : t \in PromptTexts}
  /\ configFile \in {{}, {"alpha"}, {"alpha", "beta"}}
  /\ prompt = <<>>
  /\ config = <<>>
  /\ promptParams = <<>>

\* run.ts 139-144: --agent, or the defaultAgent of the profile.
agentOf(a, c) ==
  IF TruthyString(a.agent) THEN a.agent
  ELSE IF TruthyString(c.defaultAgent) THEN c.defaultAgent
  ELSE undefined

\* The tools map with a question entry given in --tools left as given.
toolsOf_givenQuestionKept(a) ==
  LET parsed == IF TruthyString(a.tools) THEN <<parseTools(a.tools)>> ELSE <<>>
      toolsObj == IF parsed # <<>> THEN parsed[1] ELSE EmptyMap
  IN  IF ~a.allowQuestions
      THEN IF "question" \in DOMAIN toolsObj THEN <<toolsObj>>
           ELSE <<mapSet(toolsObj, "question", FALSE)>>
      ELSE parsed

\* run.ts 147-167, session.ts 285-303: the tools map; the question tool is
\* disabled unless --allow-questions is given.
toolsOf(a) ==
  LET parsed == IF TruthyString(a.tools) THEN <<parseTools(a.tools)>> ELSE <<>>
      toolsObj == IF parsed # <<>> THEN parsed[1] ELSE EmptyMap
  IN  IF ~a.allowQuestions THEN <<mapSet(toolsObj, "question", FALSE)>> ELSE parsed

\* run.ts 123-167, session.ts 253-303: the parameters of promptAsync are built.
buildPrompt(text, c) ==
  IF TruthyString(args.model) /\ args.model = "badformat"
  THEN printError("Invalid --model format") /\ UNCHANGED promptParams
  ELSE IF TruthyString(args.tools) /\ args.tools = "oops"
  THEN printError("Invalid --tools JSON") /\ UNCHANGED promptParams
  ELSE /\ promptParams' = <<[text |-> text, model |-> args.model,
                             agent |-> agentOf(args, c),
                             tools |-> toolsOf(args)]>>
       /\ cmdPc' = "prompt"
       /\ UNCHANGED <<exitCode, printed>>

\* run.ts 95-118: from the text of the source to the call of session.create;
\* session.ts 246-303: from the text of the source to the call of promptAsync.
afterRead(raw) ==
  LET trimmed == stringTrim(raw)
      c == getConfig(configFile, args)
  IN  /\ prompt' = <<trimmed>>
      /\ IF Len(trimmed) = 0
         THEN printError("Message is empty after trimming whitespace.")
              /\ UNCHANGED <<config, promptParams>>
         ELSE /\ config' = <<c>>
              /\ IF ~c.ok
                 THEN printError(c.error) /\ UNCHANGED promptParams
                 ELSE IF cmd = "run"
                 THEN cmdPc' = "create" /\ UNCHANGED <<exitCode, printed, promptParams>>
                 ELSE buildPrompt(trimmed, c)

\* run.ts 66-93: the sources are counted and the chosen one is read.
RunStart ==
  /\ cmd \in {"run", "prompt"}
  /\ cmdPc = "parse"
  /\ IF sources(args) = 0
     THEN printError("No message provided.")
          /\ UNCHANGED <<prompt, config, promptParams>>
     ELSE IF sources(args) > 1
     THEN printError("Multiple message sources provided.")
          /\ UNCHANGED <<prompt, config, promptParams>>
     ELSE IF TruthyString(args.file)
     THEN /\ cmdPc' = "readFile"
          /\ UNCHANGED <<exitCode, printed, prompt, config, promptParams>>
     ELSE IF args.stdin
     THEN /\ cmdPc' = "readStdin"
          /\ UNCHANGED <<exitCode, printed, prompt, config, promptParams>>
     ELSE afterRead(args.message[1])
  /\ UNCHANGED <<apiCalls, pc, runFrame>>

\* run.ts 89-91: readFile or readStdin resolves.
ReadOk ==
  /\ cmdPc \in {"readFile", "readStdin"}
  /\ input # <<>>
  /\ afterRead(input[1])
  /\ UNCHANGED <<apiCalls, pc, runFrame>>

\* run.ts 89-91, 219-225: readFile or readStdin rejects.
ReadFail ==
  /\ cmdPc \in {"readFile", "readStdin"}
  /\ input = <<>>
  /\ printError("ENOENT")
  /\ UNCHANGED <<prompt, config, apiCalls, promptParams, pc, runFrame>>

\* run.ts 113-167: session.create resolves.
CreateOk ==
  /\ cmdPc = "create"
  /\ apiCalls' = Append(apiCalls, Call("create", NoMessage))
  /\ buildPrompt(prompt[1], config[1])
  /\ UNCHANGED <<prompt, config, pc, runFrame>>

\* run.ts 113, 219-225: session.create rejects.
CreateFail ==
  /\ cmdPc = "create"
  /\ \E msg \in ConnectionMessages :
       /\ apiCalls' = Append(apiCalls, Call("create", msg))
       /\ printError(msg.text)
  /\ UNCHANGED <<prompt, config, promptParams, pc, runFrame>>

\* run.ts 169-180: promptAsync resolves; waitForSession is called.
\* session.ts 312-317: promptAsync resolves; the session id is printed and
\* the command ends.
PromptOk ==
  /\ cmdPc = "prompt"
  /\ apiCalls' = Append(apiCalls, Call("promptAsync", NoMessage))
  /\ IF cmd = "run"
     THEN /\ cmdPc' = "waiting"
          /\ pc' = "start"
          /\ UNCHANGED <<exitCode, printed>>
     ELSE /\ consoleLog("prompted")
          /\ processExit(0)
          /\ UNCHANGED pc
  /\ UNCHANGED <<prompt, config, promptParams, runFrame>>

\* run.ts 169, 219-225: promptAsync rejects.
PromptFail ==
  /\ cmdPc = "prompt"
  /\ \E msg \in ConnectionMessages :
       /\ apiCalls' = Append(apiCalls, Call("promptAsync", msg))
       /\ printError(msg.text)
  /\ UNCHANGED <<prompt, config, promptParams, pc, runFrame>>

NextRun ==
  \/ RunStart
  \/ ReadOk
  \/ ReadFail
  \/ CreateOk
  \/ CreateFail
  \/ PromptOk
  \/ PromptFail

SpecRun == InitRun /\ [][NextRun]_vars

\* ================================================================ claims
Done == pc \in {"returned", "thrown"}

\* The claims' own reading of "carries S in one of the four locations".
CarriesSession(evt, S) ==
  /\ evt.properties.present
  /\ \/ evt.properties.sessionID = S
     \/ evt.properties.info.present /\ evt.properties.info.id = S
     \/ evt.properties.info.present /\ evt.properties.info.sessionID = S
     \/ evt.properties.part.present /\ evt.properties.part.sessionID = S

IsTerminal(evt) == evt.type \in {"session.idle", "session.error"}

\* Indices of the consumed events that pass the filter and are terminal.
TerminalIdx ==
  {i \in 1..Len(consumed) : IsTerminal(consumed[i]) /\ CarriesSession(consumed[i], sessionId)}

FirstTerminal == CHOOSE i \in TerminalIdx : \A j \in TerminalIdx : i <= j

\* C1: waitForSession returns {status: "idle"} exactly when the first consumed
\* event that passes the session filter and is terminal is a session.idle; it
\* returns at that event: the event is the last one consumed, the last effect
\* of the loop is the terminal test of that event, and nothing is mirrored or
\* replied to after it.
C1_IdleAtFirstTerminal ==
  /\ (pc = "returned" /\ result.status = "idle")
       <=> (TerminalIdx # {} /\ consumed[FirstTerminal].type = "session.idle")
  /\ TerminalIdx # {} =>
       /\ FirstTerminal = Len(consumed)
       /\ Done
       /\ trace[Len(trace)] = <<"test", Len(consumed)>>
       /\ \A k \in 1..Len(trace) : trace[k][2] <= FirstTerminal
  /\ (pc = "returned" /\ result.status = "idle") =>
       result.event = consumed[Len(consumed)]

\* C1 witness: idle is returned at the second event, after a session.idle of
\* another session was consumed and skipped.
C1_Witness ==
  /\ pc = "returned"
  /\ result.status = "idle"
  /\ Len(consumed) = 2
  /\ consumed[1].type = "session.idle"
  /\ consumed[1].properties.sessionID = otherSessionId

\* C2: once the timer has fired (no matching terminal event was delivered
\* before), a finished waitForSession has returned {status: "timeout"}: it has
\* not thrown and has not returned "error" or "idle".
C2_TimerFiredResolvesTimeout ==
  (timedOut /\ Done) => (pc = "returned" /\ result.status = "timeout")

\* C3: a cancellation caused by the external signal is re-thrown as an
\* AbortError and never reported as {status: "timeout"}; a cancellation caused
\* by the timer is reported as {status: "timeout"} and never re-thrown.
C3_CauseDecidesOutcome ==
  /\ (Done /\ abortCause = "signal") =>
       ~(pc = "returned" /\ result.status = "timeout")
  /\ (Done /\ abortCause = "timer") => thrown # "AbortError"

\* The fallback chain of C4, read from the event's fields.
ClaimedErrorMessage(evt) ==
  CASE evt.properties.present /\ evt.properties.error.present
         /\ evt.properties.error.data.present
         /\ evt.properties.error.data.message # undefined
         -> evt.properties.error.data.message
    [] OTHER ->
         IF evt.properties.present /\ evt.properties.error.present
              /\ evt.properties.error.message # undefined
         THEN evt.properties.error.message
         ELSE "Unknown error"

\* C4: when the first matching terminal event is a session.error, the wait
\* returns {status: "error", error: m} with m = error.data.message, else
\* error.message, else "Unknown error"; formatEvent's session.error line
\* carries the same m for the same event.
C4_ErrorMessageFallback ==
  (TerminalIdx # {} /\ consumed[FirstTerminal].type = "session.error") =>
     /\ pc = "returned"
     /\ result.status = "error"
     /\ result.error = ClaimedErrorMessage(consumed[FirstTerminal])
     /\ formatEventErrorMessage(consumed[FirstTerminal]) = result.error
     /\ result.event = consumed[FirstTerminal]

\* C4 witness: error.data is absent, the message falls back to error.message.
C4_Witness ==
  /\ pc = "returned"
  /\ result.status = "error"
  /\ result.error = "top"
  /\ ~result.event.properties.error.data.present

\* C5: a stream that ends with no matching terminal event delivered returns
\* {status: "error", error: "SSE stream ended unexpectedly"}, never idle.
C5_StreamEndIsError ==
  streamEnded =>
    /\ TerminalIdx = {}
    /\ pc = "returned"
    /\ result.status = "error"
    /\ result.error = "SSE stream ended unexpectedly"

\* C5 witness: the stream ends after a session.idle of another session.
C5_Witness ==
  /\ streamEnded
  /\ pc = "returned"
  /\ Len(consumed) >= 1
  /\ consumed[1].type = "session.idle"
  /\ consumed[1].properties.sessionID = otherSessionId
\* C6: on every exit path (idle, error, stream end, timeout, re-thrown
\* cancellation, any other thrown failure) the timer is cleared: no timer
\* callback is pending once waitForSession has returned or thrown.
C6_TimerClearedOnExit == Done => ~timerArmed

\* C6 witness: a timer was armed, has not fired, and the wait ended by the
\* failure of the permission reply call.
C6_Witness ==
  /\ pc = "thrown"
  /\ thrown = "TransportError"
  /\ timeoutId # <<>>
  /\ ~timedOut
  /\ Len(trace) > 0
  /\ trace[Len(trace)][1] = "reply"

\* C7: consuming an event that is not server.connected and carries the session
\* in none of the four locations has no effect: nothing is mirrored, no reply is
\* issued, the wait does not end (also for a session.idle or session.error of
\* another session).
C7_NonMatchingNoEffect ==
  [][ ( /\ Len(consumed') = Len(consumed) + 1
        /\ consumed'[Len(consumed')].type # "server.connected"
        /\ ~CarriesSession(consumed'[Len(consumed')], sessionId) )
      => ( /\ UNCHANGED <<stderr, replies, pc, result, thrown, timerArmed, timedOut>>
           /\ trace' = Append(trace, <<"consume", Len(consumed')>>) ) ]_vars

\* C7 witness: with stream and autoApprove on, a session.idle and a
\* permission.asked of another session were consumed and the wait goes on.
C7_Witness ==
  /\ options.stream
  /\ options.autoApprove
  /\ Len(consumed) = 2
  /\ consumed[1].type = "session.idle"
  /\ consumed[1].properties.sessionID = otherSessionId
  /\ consumed[2].type = "permission.asked"
  /\ consumed[2].properties.sessionID = otherSessionId
  /\ pc = "awaitNext"
  /\ stderr = <<>>
  /\ replies = <<>>

\* The positions of an effect in the trace.
Pos(op, i) == {k \in 1..Len(trace) : trace[k] = <<op, i>>}

\* The event at index i got past the filter: the loop did more than take it.
Passed(i) == \E k \in 1..Len(trace) : trace[k][2] = i /\ trace[k][1] # "consume"

\* C8: the filter accepts an event for target T if and only if its type is
\* server.connected, or properties.sessionID = T, or properties.info.id = T,
\* or properties.info.sessionID = T, or properties.part.sessionID = T.
C8_FilterAcceptsIff ==
  \A i \in 1..Len(consumed) :
    Passed(i) <=> ( \/ consumed[i].type = "server.connected"
                    \/ CarriesSession(consumed[i], sessionId) )

\* C8 witness: an event accepted only through properties.info.id.
C8_Witness ==
  /\ Len(consumed) >= 1
  /\ Passed(1)
  /\ consumed[1].type = "message.updated"
  /\ consumed[1].properties.sessionID = otherSessionId
  /\ consumed[1].properties.info.id = sessionId
  /\ consumed[1].properties.info.sessionID = otherSessionId
  /\ ~consumed[1].properties.part.present

\* Indices of the consumed permission.asked events of the session that carry
\* a non-empty request id.
ApprovalIdx ==
  {i \in 1..Len(consumed) :
     /\ consumed[i].type = "permission.asked"
     /\ CarriesSession(consumed[i], sessionId)
     /\ TruthyString(consumed[i].properties.id)}

\* C9: with autoApprove, every consumed matching permission.asked event with a
\* non-empty request id gets exactly one reply {requestID: id, reply: "always"},
\* issued after the mirroring, before the terminal test and before the next
\* event is consumed, and no other reply is issued; without autoApprove no
\* reply is ever issued.
C9_ExactlyOneReply ==
  /\ options.autoApprove =>
       /\ \A i \in ApprovalIdx :
            /\ Cardinality(Pos("reply", i)) = 1
            /\ \A k \in Pos("reply", i) :
                 /\ options.stream => trace[k - 1] = <<"mirror", i>>
                 /\ \A m \in 1..Len(trace) :
                      (trace[m][1] = "test" /\ trace[m][2] = i) => k < m
                 /\ \A m \in 1..Len(trace) :
                      (trace[m][1] = "consume" /\ trace[m][2] > i) => k < m
       /\ Len(replies) = Cardinality(ApprovalIdx)
       /\ \A r \in 1..Len(replies) :
            \E i \in ApprovalIdx :
              /\ Cardinality({j \in ApprovalIdx : j <= i}) = r
              /\ replies[r] = [requestID |-> consumed[i].properties.id,
                               reply |-> "always"]
  /\ ~options.autoApprove => replies = <<>>

\* C10: waitForSession throws only a transport failure (subscribe, iteration
\* or reply) or the AbortError of an external cancellation; a session error, a
\* timeout and a stream end are returned as values.
C10_ThrowsOnlyTransportOrCancel ==
  /\ pc = "thrown" =>
       \/ thrown = "TransportError"
       \/ thrown = "AbortError" /\ signalAborted /\ ~timedOut
  /\ TerminalIdx # {} => pc = "returned"
  /\ streamEnded => pc = "returned"
  /\ (Done /\ timedOut /\ thrown # "TransportError") =>
       (pc = "returned" /\ result.status = "timeout")

\* ---------------------------------------------------------------- C11..C16
\* The lines the command printed on stdout that report idle.
IdleReports ==
  {i \in 1..Len(printed) : printed[i].text \in {"idle status_check", "idle sse"}}

\* A session.idle is on its way to the subscription.
IdlePending == \E i \in 1..Len(outbox) : outbox[i] = IdleEvent

\* C11: in the session wait command no idle transition is lost.  While the
\* command waits on its subscription (after the probe answered non-idle) and
\* nothing has ended the wait, a session that is idle on the server has a
\* session.idle on its way to the subscription, so that the command can
\* report it; idle is reported at most once, and with exit code 0.
C11_NoIdleLost ==
  cmd = "wait" =>
    /\ (/\ SessionIsIdle
        /\ cmdPc = "waiting"
        /\ pc \in {"start", "subscribing", "awaitNext"}
        /\ ~controllerAborted) => IdlePending
    /\ Cardinality(IdleReports) <= 1
    /\ (cmdPc = "exited" /\ IdleReports # {}) => exitCode = 0

\* The probe found the session idle / the subscription delivered session.idle.
FoundIdleByProbe ==
  /\ Len(apiCalls) = 2
  /\ apiCalls[2] = Call("status", NoMessage)
  /\ initialStatus.type = "idle"
FoundIdleByEvent == pc = "returned" /\ result.status = "idle"

\* C12: the exit code of session wait.  It is 0 exactly when the session was
\* found idle, by the probe (and then no subscription was opened) or by a
\* session.idle event, or when the command was interrupted (which prints no
\* result); 1 on a session error, 2 on a timeout, 3 on a connectivity failure
\* of the probe or of the subscription.
C12_WaitExitCodes ==
  (cmd = "wait" /\ cmdPc = "exited") =>
    /\ exitCode = 0 <=> (FoundIdleByProbe \/ FoundIdleByEvent \/ interrupted)
    /\ FoundIdleByProbe =>
         pc = "uncalled" /\ printed = <<[fd |-> "stdout", text |-> "idle status_check"]>>
    /\ FoundIdleByEvent => printed = <<[fd |-> "stdout", text |-> "idle sse"]>>
    /\ (pc = "returned" /\ result.status = "error") => exitCode = 1
    /\ (pc = "returned" /\ result.status = "timeout") => exitCode = 2
    /\ probeError.cause = "connection" => exitCode = 3
    /\ (pc = "thrown" /\ thrown = "TransportError") => exitCode = 3
    /\ interrupted => printed = <<>>

\* C13: a failure of the probe is classified by what failed.  A connectivity
\* failure is reported as "Connection error" with exit code 3, whatever its
\* message says; a not-found failure is reported as "Session not found" and
\* never with exit code 3; after either the command has exited without
\* calling waitForSession.
C13_ProbeFailureClass ==
  (cmd = "wait" /\ probeError # NoMessage) =>
    /\ cmdPc = "exited"
    /\ pc = "uncalled"
    /\ probeError.cause = "connection" =>
         /\ exitCode = 3
         /\ printed = <<[fd |-> "stderr", text |-> "Connection error"]>>
    /\ probeError.cause = "notFound" =>
         /\ exitCode # 3
         /\ printed = <<[fd |-> "stderr", text |-> "Session not found"]>>

\* C14: the exit code of the run command.  On a timeout of the wait it is
\* neither 0 nor the code of a session error (1, the code of printError,
\* which the command exits with on status "error"); on a session error it is
\* not 0; on idle, once the messages were fetched, it is 0.
C14_RunExitCodes ==
  (cmd = "run" /\ cmdPc = "exited" /\ pc = "returned") =>
    /\ result.status = "timeout" => exitCode \notin {0, 1}
    /\ result.status = "error" => exitCode = 1
    /\ (result.status = "idle" /\ apiCalls = <<Call("messages", NoMessage)>>) =>
         exitCode = 0

\* C15: when session.get succeeded, checkSessionStatus returns {type: "idle"}
\* if the status map has no entry for the session (whatever entries other
\* sessions have), and otherwise the entry of the session unchanged.
C15_StatusOfSession ==
  [][(cmdPc = "probeStatus" /\ probeError' = NoMessage /\ cmdPc' # "probeStatus") =>
       /\ sessionId \notin DOMAIN statusMap =>
            /\ initialStatus'.type = "idle"
            /\ initialStatus'.message = undefined
       /\ sessionId \in DOMAIN statusMap =>
            /\ initialStatus' = statusMap[sessionId]
            /\ initialStatus'.type = "retry" =>
                 /\ initialStatus'.attempt = 2
                 /\ initialStatus'.message = "Rate limited"
                 /\ initialStatus'.next = 1500]_vars

\* C15 witness: the probe answered idle for the session while the status map
\* held an entry of another session only.
C15_Witness ==
  /\ FoundIdleByProbe
  /\ DOMAIN statusMap = {otherSessionId}
  /\ statusMap[otherSessionId].type = "busy"

\* C16: when session.get fails, checkSessionStatus rejects with that error
\* and session.status is not called; session.status is called only right
\* after a session.get that succeeded.
C16_GetFailurePropagates ==
  /\ \A i \in 1..Len(apiCalls) :
       apiCalls[i].call = "status" =>
         i > 1 /\ apiCalls[i - 1] = Call("get", NoMessage)
  /\ \A i \in 1..Len(apiCalls) :
       (apiCalls[i].call = "get" /\ apiCalls[i].error # NoMessage) =>
         /\ i = Len(apiCalls)
         /\ probeError = apiCalls[i].error

\* C16 witness: session.get failed with "404: Session not found", that error
\* reached the command and nothing else was called.
C16_Witness ==
  /\ probeError \in NotFoundMessages
  /\ apiCalls = <<Call("get", probeError)>>

\* ---------------------------------------------------------------- C17..C20
IsDelta(i) == fed[i].event.type = "message.part.delta"
IsTextSnapshot(i) ==
  fed[i].event.type = "message.part.updated" /\ fed[i].event.partType = "text"
IsToolUpdate(i) ==
  fed[i].event.type = "message.part.updated" /\ fed[i].event.partType = "tool"
Silent(i) == fed[i].lines = <<>> /\ fed[i].written = <<>>

\* How many lines of the kind the call i returned or wrote to the sink.
CountKind(i, kind) ==
  Cardinality({k \in 1..Len(fed[i].lines) : fed[i].lines[k].kind = kind})
  + Cardinality({k \in 1..Len(fed[i].written) : fed[i].written[k].kind = kind})

\* C17 as claimed: every message.part.delta event marks its partID as
\* streamed, and after a delta of a part every later text snapshot of the
\* same partID returns no lines and writes nothing.
C17_DeltaSuppressesSnapshot ==
  \A i \in 1..Len(fed) :
    IsDelta(i) =>
      /\ fed[i].event.partID \in state.streamedParts
      /\ \A j \in (i + 1)..Len(fed) :
           (IsTextSnapshot(j) /\ fed[j].event.partID = fed[i].event.partID) =>
             Silent(j)

\* C17 amended: every message.part.delta event with a non-empty delta and a
\* non-empty partID marks its partID as streamed, and after such a delta
\* every later text snapshot of the same partID returns no lines and writes
\* nothing.
C17_NonEmptyDeltaSuppressesSnapshot ==
  \A i \in 1..Len(fed) :
    (IsDelta(i) /\ fed[i].event.delta \notin {undefined, ""}
                /\ fed[i].event.partID \notin {undefined, ""}) =>
      /\ fed[i].event.partID \in state.streamedParts
      /\ \A j \in (i + 1)..Len(fed) :
           (IsTextSnapshot(j) /\ fed[j].event.partID = fed[i].event.partID) =>
             Silent(j)

\* C17 witness: a part got the delta "Wor" and later its snapshot "Working",
\* which printed nothing.
C17_Witness ==
  \E i, j \in 1..Len(fed) :
    /\ i < j
    /\ IsDelta(i) /\ fed[i].event.delta = "Wor"
    /\ IsTextSnapshot(j) /\ fed[j].event.text = "Working"
    /\ fed[j].event.partID = fed[i].event.partID
    /\ Silent(j)

\* The calls that emitted for a role in a session (they reached ensureHeader
\* with role assistant or user).
IsEmission(i) == fed[i].role \in {"assistant", "user"}
EarlierEmissions(i) ==
  {j \in 1..(i - 1) : IsEmission(j) /\ fed[j].session = fed[i].session}
LastEarlier(i) == CHOOSE j \in EarlierEmissions(i) : \A k \in EarlierEmissions(i) : k <= j
HeaderOf(role) == IF role = "assistant" THEN "Assistant" ELSE "User"
OtherRole(role) == IF role = "assistant" THEN "user" ELSE "assistant"

\* C18: within one session, an emission prints the header of its role
\* exactly once if it is the first emission of the session or follows an
\* emission of the other role, and prints no header if it follows an emission
\* of the same role; it never prints the header of the other role.
C18_OneHeaderPerRun ==
  \A i \in 1..Len(fed) :
    IsEmission(i) =>
      LET first == \/ EarlierEmissions(i) = {}
                   \/ fed[LastEarlier(i)].role # fed[i].role
      IN  /\ CountKind(i, HeaderOf(fed[i].role)) = IF first THEN 1 ELSE 0
          /\ CountKind(i, HeaderOf(OtherRole(fed[i].role))) = 0

\* C18 witness: in one session an assistant emission printed its header, the
\* user message was announced, its emission printed "User", and the next
\* assistant emission printed "Assistant" again.
C18_Witness ==
  /\ Len(fed) = 4
  /\ fed[1].role = "assistant" /\ CountKind(1, "Assistant") = 1
  /\ fed[2].event.type = "message.updated"
  /\ fed[3].role = "user" /\ CountKind(3, "User") = 1
  /\ fed[4].role = "assistant" /\ CountKind(4, "Assistant") = 1
  /\ fed[1].session = sessionId /\ fed[3].session = sessionId
  /\ fed[4].session = sessionId

\* The non-error display lines of the tool updates of a call.
ToolLines(callId) ==
  UNION { {<<i, k>> : k \in {n \in 1..Len(fed[i].lines) : fed[i].lines[n].kind = "tool"}} :
            i \in {m \in 1..Len(fed) : IsToolUpdate(m) /\ fed[m].event.callID = callId} }

\* C19: over the tool updates of one callID a pending update returns no
\* line, the non-error display line of the tool is returned at most once,
\* and a running update followed by a completed update returns it exactly
\* once.
C19_ToolLineAtMostOnce ==
  /\ \A i \in 1..Len(fed) :
       (IsToolUpdate(i) /\ fed[i].event.status = "pending") => fed[i].lines = <<>>
  /\ Cardinality(ToolLines("call_1")) <= 1
  /\ \A i \in 1..(Len(fed) - 1) :
       (/\ IsToolUpdate(i) /\ fed[i].event.status = "running"
        /\ IsToolUpdate(i + 1) /\ fed[i + 1].event.status = "completed") =>
         Cardinality(ToolLines("call_1")) = 1

\* The claim's reading of the error text of a tool error line.
ClaimedErrorText(errMsg) ==
  IF errMsg = <<>> THEN Failed
  ELSE IF errMsg = LongText THEN Append([k \in 1..60 |-> "x"], Ellipsis)
  ELSE errMsg

\* C20: a tool update with status error returns exactly one tool error line,
\* the last line returned, with the display name and the truncated error
\* text ("failed" when the text is missing), returns no other tool line,
\* and leaves toolsShown as it was.
C20_ErrorAlwaysOneLine ==
  [][(Len(fed') = Len(fed) + 1
        /\ fed'[Len(fed')].event.type = "message.part.updated"
        /\ fed'[Len(fed')].event.partType = "tool"
        /\ fed'[Len(fed')].event.status = "error") =>
       LET e == fed'[Len(fed')]
           errs == {k \in 1..Len(e.lines) : e.lines[k].kind = "toolError"}
       IN  /\ errs = {Len(e.lines)}
           /\ e.lines[Len(e.lines)].text = "bash"
           /\ e.lines[Len(e.lines)].detail = ClaimedErrorText(e.event.error)
           /\ \A k \in 1..Len(e.lines) : e.lines[k].kind # "tool"
           /\ e.lines = lines'
           /\ state'.toolsShown = state.toolsShown]_vars

\* C20 witness: the running update of the call was displayed, and a later
\* error update of the same call returned its error line.
C20_Witness ==
  \E i, j \in 1..Len(fed) :
    /\ i < j
    /\ IsToolUpdate(i) /\ fed[i].event.status = "running"
    /\ \E k \in 1..Len(fed[i].lines) : fed[i].lines[k].kind = "tool"
    /\ IsToolUpdate(j) /\ fed[j].event.status = "error"
    /\ fed[j].event.error = LongText
    /\ \E k \in 1..Len(fed[j].lines) : fed[j].lines[k].kind = "toolError"
    /\ "call_1" \in state.toolsShown

\* ---------------------------------------------------------------- C21..C30
\* The event types of the table of formatEvent (oc-cli.js 143-511).
KnownTypes ==
  {"server.connected", "session.created", "session.deleted", "session.updated",
   "session.status", "session.idle", "session.compacted", "session.error",
   "message.updated", "message.removed", "message.part.delta",
   "message.part.updated", "message.part.removed", "file.edited",
   "session.diff", "permission.asked", "permission.updated",
   "permission.replied", "question.asked", "question.replied",
   "question.rejected", "todo.updated"}

\* The call of formatEvent that a step adds to fed.
Fed(e) == Len(e) = Len(fed) + 1

\* C21: for an event whose type is not in the table, formatEvent returns no
\* line, writes nothing to the sink and leaves every component of the
\* formatter state as it was.
C21_UnknownTypeNoEffect ==
  [][(Fed(fed') /\ fed'[Len(fed')].event.type \notin KnownTypes) =>
       /\ fed'[Len(fed')].lines = <<>>
       /\ fed'[Len(fed')].written = <<>>
       /\ lines' = <<>>
       /\ writer' = writer
       /\ state' = state]_vars

\* C21 witness: an event of an unknown type was formatted after the state had
\* recorded a role, a streamed part and output.
C21_Witness ==
  /\ Len(fed) = 3
  /\ fed[3].event.type = "tui.toast.show"
  /\ state.hasOutput
  /\ state.streamedParts # {}
  /\ DOMAIN state.messageRoles # {}

\* C22: a message.part.delta event whose field is not "text" or whose delta
\* is empty returns no line, writes nothing and leaves the formatter state
\* as it was (the part is not marked as streamed).
C22_OtherDeltaNoEffect ==
  [][(/\ Fed(fed')
      /\ fed'[Len(fed')].event.type = "message.part.delta"
      /\ \/ fed'[Len(fed')].event.field # "text"
         \/ fed'[Len(fed')].event.delta \in {undefined, ""}) =>
       /\ fed'[Len(fed')].lines = <<>>
       /\ fed'[Len(fed')].written = <<>>
       /\ writer' = writer
       /\ state' = state]_vars

\* C28: with a timeout and autoApprove, once the timer has fired the wait
\* can finish without the permission reply call completing: while the wait
\* has not returned, the rejection of its pending await by the aborted
\* controller is enabled.
C28_TimerEndsWaitWithoutReply ==
  (/\ TruthyNumber(options.timeout)
   /\ options.autoApprove
   /\ timedOut
   /\ ~Done) => ENABLED AbortUnwind

\* C29: once the wait has installed its listener, an external signal in the
\* aborted state (aborted before the call or during the wait) means that the
\* internal controller is aborted too.
C29_ExternalAbortChained ==
  (options.signal # "none" /\ signalAborted /\ pc # "start") => controllerAborted

\* C30: in the run command no idle transition after the prompt is lost.  When
\* the session becomes idle on the server while the command waits (before or
\* after its subscription is live) and nothing has ended the wait, a
\* session.idle is on its way to the subscription, so that the command can
\* report completion.
C30_RunSeesIdle ==
  [][(/\ cmd = "run"
      /\ cmdPc = "waiting"
      /\ pc \in {"start", "subscribing", "awaitNext", "awaitReply"}
      /\ ~controllerAborted
      /\ ~SessionIsIdle
      /\ SessionIsIdle') => IdlePending']_vars

\* The call i of formatEvent put something on the sink: chunks it wrote, or
\* lines it returned (printed after the call).
Outputs(i) == fed[i].written # <<>> \/ fed[i].lines # <<>>

\* The most recent output before the call i is a streamed text chunk.
AfterChunk(i) ==
  \E j \in 1..(i - 1) :
    /\ Outputs(j)
    /\ \A k \in (j + 1)..(i - 1) : ~Outputs(k)
    /\ fed[j].lines = <<>>
    /\ fed[j].written[Len(fed[j].written)].kind = "delta"

\* The call i emits a role header, as a returned line or flushed to the sink.
EmitsHeader(i) ==
  \/ \E k \in 1..Len(fed[i].lines) : fed[i].lines[k].kind \in {"Assistant", "User"}
  \/ \E k \in 1..Len(fed[i].written) : fed[i].written[k].kind \in {"Assistant", "User"}

\* C23: when a call of formatEvent emits a header or returns lines while the
\* most recent output on the sink is a streamed text chunk, the call first
\* writes a newline to the sink, whatever the type of its event.
C23_NewlineAfterChunk ==
  \A i \in 1..Len(fed) :
    (AfterChunk(i) /\ (fed[i].lines # <<>> \/ EmitsHeader(i))) =>
      /\ fed[i].written # <<>>
      /\ fed[i].written[1] = Newline

\* C25: formatEvent never raises: every call returns a list of lines.
C25_NeverRaises == \A i \in 1..Len(fed) : ~fed[i].raised

\* C24: truncate measures the text after its runs of white space were
\* collapsed and the text trimmed; a cleaned text of at most maxLen characters
\* is returned as it is; otherwise the result ends with the ellipsis and has
\* at most maxLen characters, the ellipsis included (exactly 60 for a budget
\* of 60).
C24_TruncateWithinBudget ==
  truncated # <<>> =>
    LET cleaned == trim(squeeze(textIn, 1))
        r == truncated[1]
    IN  /\ Len(cleaned) <= maxLenIn => r = cleaned
        /\ Len(cleaned) > maxLenIn =>
             /\ r[Len(r)] = Ellipsis
             /\ Len(r) <= maxLenIn
             /\ maxLenIn = 60 => Len(r) = 60

\* C26: the profile resolveConfig selects.  With a -p override: that profile
\* if the config file has it, otherwise the error "Profile ... not found".
\* Without an override: the only profile if there is exactly one, the error
\* "No profiles configured" if there is none, "Multiple profiles configured"
\* if there are two or more.
C26_ProfileSelection ==
  config # <<>> =>
    LET c == config[1]
        n == Cardinality(configFile)
    IN  IF args.profile # undefined
        THEN /\ args.profile \in configFile =>
                  c.ok /\ c.activeProfile = args.profile
             /\ args.profile \notin configFile =>
                  ~c.ok /\ c.error = "Profile not found"
        ELSE /\ n = 1 => c.ok /\ c.activeProfile \in configFile
             /\ n = 0 => ~c.ok /\ c.error = "No profiles configured"
             /\ n >= 2 => ~c.ok /\ c.error = "Multiple profiles configured"

\* The prompt sources the command line gives.
SourcesGiven ==
  {k \in {"inline", "file", "stdin"} :
     \/ k = "inline" /\ args.message # <<>>
     \/ k = "file" /\ args.file # undefined
     \/ k = "stdin" /\ args.stdin}

\* The text of the prompt source the command line selects, when it can be read.
SourceText ==
  IF SourcesGiven \cap {"file", "stdin"} # {} THEN input ELSE args.message

\* A text that is not empty after trimming: it has a character that is not
\* white space.
NonBlank(t) == \E i \in 1..Len(t) : ~IsSpace(t[i])

\* The command ended with one error on stderr, exit code 1 and no server call.
RejectedUnsent ==
  /\ cmdPc = "exited"
  /\ exitCode = 1
  /\ Len(printed) = 1
  /\ printed[1].fd = "stderr"
  /\ apiCalls = <<>>

DisplaysSnapshot(i) ==
  IsTextSnapshot(i) /\ CountKind(i, "text") + CountKind(i, "quote") > 0
StreamsChunk(i) == IsDelta(i) /\ CountKind(i, "delta") > 0

\* C31: the text of one part is displayed at most once, in whatever order the
\* events of the part arrive: never by two snapshots, and never both by a
\* snapshot and as streamed chunks.
C31_TextPartAtMostOnce ==
  \A i, j \in 1..Len(fed) :
    (/\ i < j
     /\ fed[i].event.partID # undefined
     /\ fed[i].event.partID = fed[j].event.partID) =>
      /\ ~(DisplaysSnapshot(i) /\ DisplaysSnapshot(j))
      /\ ~(DisplaysSnapshot(i) /\ StreamsChunk(j))
      /\ ~(StreamsChunk(i) /\ DisplaysSnapshot(j))

\* C32: in every formatter state no session is in both header-flag sets.
C32_HeaderFlagsDisjoint ==
  state.assistantHeaderShown \cap state.userHeaderShown = {}

\* C32 witness: a session got the user header and then the assistant header,
\* so that its flag moved from one set to the other.
C32_Witness ==
  /\ \E i, j \in 1..Len(fed) :
       /\ i < j
       /\ fed[i].session = sessionId /\ CountKind(i, "User") = 1
       /\ fed[j].session = sessionId /\ CountKind(j, "Assistant") = 1
  /\ state.assistantHeaderShown = {sessionId}
  /\ state.userHeaderShown = {}

\* Some call returned a display line or wrote a delta chunk.
SomeOutput(e) ==
  \E i \in 1..Len(e) :
    \/ e[i].lines # <<>>
    \/ \E k \in 1..Len(e[i].written) : e[i].written[k].kind = "delta"

\* C33: hasOutput is true exactly when a display line was returned or a
\* delta chunk was written since the state was created; it never goes back
\* to false, and streamedParts and toolsShown never lose an element.
C33_OutputFlagAndSetsGrow ==
  [][/\ state.hasOutput <=> SomeOutput(fed)
     /\ state'.hasOutput <=> SomeOutput(fed')
     /\ state.hasOutput => state'.hasOutput
     /\ state.streamedParts \subseteq state'.streamedParts
     /\ state.toolsShown \subseteq state'.toolsShown]_vars

\* C33 witness: after output, a streamed part and a shown tool, a call that
\* returned and wrote nothing left the flag and the sets as they were.
C33_Witness ==
  /\ Len(fed) = 4
  /\ Silent(4)
  /\ state.hasOutput
  /\ state.streamedParts # {}
  /\ state.toolsShown # {}

\* The run command ended with the error of a rejected --model or --tools.
OptionsRejected ==
  /\ cmd = "run"
  /\ cmdPc = "exited"
  /\ printed # <<>>
  /\ printed[Len(printed)].text \in {"Invalid --model format", "Invalid --tools JSON"}

\* C34: when the run command rejects --model or --tools, the server is as it
\* was: no session was created and no prompt was sent.
C34_RejectedOptionsNoServerCall == OptionsRejected => apiCalls = <<>>

\* A prompt was sent: promptAsync was called, by run or by session prompt.
PromptSent == \E i \in 1..Len(apiCalls) : apiCalls[i].call = "promptAsync"

\* The map written in --tools, when one is written.
GivenTools == IF args.tools = undefined THEN <<>> ELSE <<parseTools(args.tools)>>

\* The entries of --tools other than question.
OtherTools == IF GivenTools = <<>> THEN {} ELSE DOMAIN GivenTools[1] \ {"question"}

\* C35: without --allow-questions every prompt sent by run and by session
\* prompt carries a tools map with question = false, whatever --tools says
\* about question, and with every other entry of --tools unchanged; with
\* --allow-questions the tools map is the one given in --tools, or absent.
C35_QuestionDisabledByDefault ==
  PromptSent =>
    /\ promptParams # <<>>
    /\ LET tools == promptParams[1].tools
       IN  IF ~args.allowQuestions
           THEN /\ tools # <<>>
                /\ DOMAIN tools[1] = OtherTools \cup {"question"}
                /\ tools[1]["question"] = FALSE
                /\ \A k \in OtherTools : tools[1][k] = GivenTools[1][k]
           ELSE tools = GivenTools

\* session prompt sent a prompt whose --tools enabled the question tool
\* and --allow-questions was not given.
C35_Witness ==
  /\ PromptSent
  /\ cmd = "prompt"
  /\ ~args.allowQuestions
  /\ GivenTools # <<>>
  /\ "question" \in DOMAIN GivenTools[1]
  /\ GivenTools[1]["question"] = TRUE
  /\ promptParams[1].tools[1]["question"] = FALSE
  /\ promptParams[1].tools[1]["read"] = TRUE

\* The timeout option is a number other than zero.
NonZeroTimeout == options.timeout \in {"30", "-5"}

\* C36: waitForSession arms the timeout timer if and only if the timeout
\* option is a non-zero number.  With timeout undefined, 0 or NaN no timer
\* is ever armed and the wait never resolves as timeout; with a number N
\* the timer is armed once, for N seconds, in the step that precedes the
\* opening of the subscription.
C36_TimerArmedIffNonZero ==
  [][/\ (pc = "start" /\ pc' # "start") =>
          /\ pc' = "subscribing"
          /\ timerArmed' <=> NonZeroTimeout
          /\ timeoutId' = IF NonZeroTimeout
                          THEN <<toNumber(options.timeout) * 1000>> ELSE <<>>
     /\ (~timerArmed /\ timerArmed') => pc = "start"
     /\ timeoutId' # timeoutId => pc = "start"
     /\ ~NonZeroTimeout =>
          /\ ~timerArmed'
          /\ ~timedOut'
          /\ result'.status # "timeout"]_vars

\* A wait with --timeout 30 has its timer pending for 30000 ms while the
\* subscription is being opened.
C36_Witness ==
  /\ options.timeout = "30"
  /\ pc = "subscribing"
  /\ timerArmed
  /\ timeoutId = <<30000>>

====
